---------------------------- MODULE Spec2Model ----------------------------
(***************************************************************************)
(* A model of the dynamic arrays of kijudev/frankenstein.                  *)
(*                                                                         *)
(* Part A: frank::DynamicArray of src/include/container/dynamic_array.hpp  *)
(*         (the Impl-based draft), instantiated as DynamicArray<int>: the  *)
(*         element type is trivially copyable and trivially destructible,  *)
(*         so the memcpy/memmove branches of every `if constexpr` are the  *)
(*         ones compiled.  Specification SpecA.                            *)
(*                                                                         *)
(* Part B: frank::DynamicArray of src/unnamed/part_003 (first class, the    *)
(*         m_first / m_last / m_capacity draft), instantiated with an      *)
(*         element type like std::string: copy construction may throw,     *)
(*         move construction is noexcept, the destructor is not trivial.   *)
(*         So the std::uninitialized_copy / std::uninitialized_move        *)
(*         branches and the ScopeGuard branches of every `if constexpr`    *)
(*         are the ones compiled.  Two objects a and b live in one heap.   *)
(*         Specification SpecB.                                            *)
(*                                                                         *)
(* A pointer is a pair (buffer, offset); the null pointer is buffer 0.     *)
(* The heap maps a buffer id to its cells.  A failed FRANK_ASSERT aborts   *)
(* the program (status "assert"); an access outside the allocated block    *)
(* and the like are undefined behaviour (status "ub" in part A, the kind   *)
(* of misuse in part B) and the model follows the program no further.      *)
(***************************************************************************)
EXTENDS Integers, Sequences, FiniteSets, TLC

\* ---------------------------------------------------------------- bounds
\* Element values are 1..MaxVal.
MaxVal == 2
\* No buffer of more than MaxCap slots is requested.
MaxCap == 3
\* A source range handed to assign or to a constructor has at most MaxSrc
\* elements.
MaxSrc == 2
\* The program that only appends calls push_back at most MaxPush times.
MaxPush == 6

Val == 1..MaxVal

Min(a, b) == IF a < b THEN a ELSE b

\* Sequences over S of length 0..n
SeqUpTo(S, n) == UNION {[1..k -> S] : k \in 0..n}

\* ------------------------------------------------------------- variables
VARIABLES
    implA,     \* Impl: the pointer triad first / last / capacity
    heapA,     \* the allocator's blocks: buffer id -> [live, cells]
    statusA,   \* "ok", "assert" (FRANK_ASSERT failed) or "ub"
    opA,       \* history: the last public call, its arguments and pre-state
    pushedA    \* history: the values pushed while only push_back was called

varsA == <<implA, heapA, statusA, opA, pushedA>>

VARIABLES
    objsB,     \* the objects a and b: alive, m_first, m_last, m_capacity
    heapB,     \* the allocator's blocks: buffer id -> [live, cells]
    statusB,   \* "ok", or the undefined behaviour the program ran into
    opB        \* history: the last call, its arguments, outcome and counts

varsB == <<objsB, heapB, statusB, opB>>

VARIABLES
    guardG     \* the scope guards and the history of their calls

varsG == <<guardG>>

vars == <<varsA, varsB, varsG>>

\* What a step of one part leaves alone.
restA == <<varsB, varsG>>
restB == <<varsA, varsG>>
restG == <<varsA, varsB>>

\* No scope guard program runs.
IdleG == guardG = <<>>

\* ----------------------------------------------------------------------
\* Part A: src/include/container/dynamic_array.hpp
\* ----------------------------------------------------------------------
\* pointer = (buffer, offset); nullptr
Ptr(b, o) == [buf |-> b, off |-> o]
Null == Ptr(0, 0)

\* std::distance(p, q) for pointers into one block
distance(p, q) == q.off - p.off

\* p + n
PtrAdd(p, n) == Ptr(p.buf, p.off + n)

\* Buffer ids of part A: grow/shrink hold the old and the new block at once.
BufA == {1, 2}

FreeBlock == [live |-> FALSE, cells |-> <<>>]

\* std::nullopt; an optional that holds a reference is [has |-> TRUE, ptr
\* |-> the address it refers to].
nullopt == [has |-> FALSE, ptr |-> Null]

\* A world is the object and the heap it lives in, threaded through the
\* statements of a member function, with the optional an accessor returns.
World(i, h, s) == [impl |-> i, heap |-> h, status |-> s, ret |-> nullopt]

NullImpl == [first |-> Null, last |-> Null, capacity |-> Null]

\* FRANK_ASSERT(cond): abort on a false condition; arguments are passed as
\* the world reached so far and the world that continues.
FRANK_ASSERT(w, cond, cont) ==
    IF w.status # "ok" THEN w
    ELSE IF ~cond THEN [w EXCEPT !.status = "assert"]
    ELSE cont

\* Impl::is_null
is_null(i) == i.first = Null

\* DynamicArray::size / capacity / is_empty / is_full
size(i) == distance(i.first, i.last)
capacity(i) == distance(i.first, i.capacity)
is_empty(i) == i.first = i.last
is_full(i) == i.last = i.capacity

\* DynamicArray::is_idx_valid
is_idx_valid(i, idx) == idx < size(i)

\* Impl::is_valid_pointer / is_valid_range
is_valid_pointer(i, p) ==
    distance(i.first, p) >= 0 /\ distance(p, i.capacity) > 0

is_valid_range(i, a, b) ==
    /\ distance(a, b) >= 0
    /\ distance(i.first, a) >= 0
    /\ distance(a, i.capacity) >= 0
    /\ distance(i.first, b) >= 0
    /\ distance(b, i.capacity) >= 0

\* The cells of the block a pointer points into (none for nullptr).
CellsOf(h, p) == IF p.buf = 0 THEN <<>> ELSE h[p.buf].cells

\* Is [p, p+n) inside a live block?
InBlock(h, p, n) ==
    \/ n = 0
    \/ /\ p.buf # 0
       /\ h[p.buf].live
       /\ p.off >= 0
       /\ p.off + n <= Len(h[p.buf].cells)

\* operator[] on every index below size(): the live sequence as a reader
\* sees it (only defined while [first, last) lies inside the block).
Contents(i, h) ==
    [k \in 1..size(i) |-> CellsOf(h, i.first)[i.first.off + k]]


\* The n cells at p, and the heap with vals stored at p.
ReadCells(h, p, n) == [k \in 1..n |-> h[p.buf].cells[p.off + k]]

WriteCells(h, p, vals) ==
    IF Len(vals) = 0 THEN h
    ELSE [h EXCEPT ![p.buf].cells =
            [k \in 1..Len(@) |->
                IF k > p.off /\ k <= p.off + Len(vals)
                THEN vals[k - p.off] ELSE @[k]]]

\* std::memmove / std::memcpy of n elements: a negative distance converts
\* to a huge size_t, and a source or destination outside its block is an
\* out-of-bounds access; both are undefined behaviour.
memmove(w, dest, src, n) ==
    IF w.status # "ok" THEN w
    ELSE IF n < 0 \/ ~InBlock(w.heap, src, n) \/ ~InBlock(w.heap, dest, n)
    THEN [w EXCEPT !.status = "ub"]
    ELSE [w EXCEPT !.heap = WriteCells(@, dest, ReadCells(@, src, n))]

\* std::allocator_traits<Allocator>::allocate: the lowest free block; its
\* cells are uninitialized and hold the arbitrary value fill.
FreeBufs(h) == {b \in DOMAIN h : ~h[b].live}

NewBuf(h) == CHOOSE b \in FreeBufs(h) : \A c \in FreeBufs(h) : b <= c

allocate(h, sz, fill) ==
    [h EXCEPT ![NewBuf(h)] = [live |-> TRUE, cells |-> [k \in 1..sz |-> fill]]]

\* std::allocator_traits<Allocator>::deallocate(first, n)
deallocate(h, p) == [h EXCEPT ![p.buf] = FreeBlock]

\* Impl::init_self
init_self(w, sz, fill) ==
    FRANK_ASSERT(w, sz # 0,
        LET b == NewBuf(w.heap) IN
        [w EXCEPT !.heap = allocate(w.heap, sz, fill),
                  !.impl = [first |-> Ptr(b, 0), last |-> Ptr(b, 0),
                            capacity |-> Ptr(b, sz)]])

\* Impl::init_self_null
init_self_null(w) == [w EXCEPT !.impl = NullImpl]

\* Impl::deallocate_self
deallocate_self(w) ==
    IF w.status # "ok" THEN w
    ELSE [w EXCEPT !.heap = deallocate(@, w.impl.first)]

\* Impl::destroy_range: int is trivially destructible, only the assertion
\* is left.
destroy_range(w, a, b) == FRANK_ASSERT(w, is_valid_range(w.impl, a, b), w)

\* Impl::destroy_self
destroy_self(w) == destroy_range(w, w.impl.first, w.impl.last)

\* Impl::destroy_item
destroy_item(w, p) == FRANK_ASSERT(w, is_valid_pointer(w.impl, p), w)

\* Impl::construct_item: placement-construct an int holding v at p
construct_item(w, p, v) ==
    FRANK_ASSERT(w, is_valid_pointer(w.impl, p),
        IF ~InBlock(w.heap, p, 1) THEN [w EXCEPT !.status = "ub"]
        ELSE [w EXCEPT !.heap = WriteCells(@, p, <<v>>)])

\* Impl::move_range_right / move_range_left (the memmove branch)
move_range_right(w, a, b, n) ==
    FRANK_ASSERT(w, is_valid_range(w.impl, a, b),
        memmove(w, PtrAdd(a, n), a, distance(a, b)))

move_range_left(w, a, b, n) ==
    FRANK_ASSERT(w, is_valid_range(w.impl, a, b),
        memmove(w, PtrAdd(a, 0 - n), a, distance(a, b)))

\* Impl::advance / prev
advance(w, n) ==
    FRANK_ASSERT(w, n # 0, [w EXCEPT !.impl.last = PtrAdd(@, n)])

prev(w, n) ==
    FRANK_ASSERT(w, n # 0, [w EXCEPT !.impl.last = PtrAdd(@, 0 - n)])

\* Impl::~Impl
ImplDtor(w) ==
    IF w.status # "ok" \/ is_null(w.impl) THEN w
    ELSE deallocate_self(destroy_self(w))

\* move_range with the element count short by one
move_range_one_short(w, a, b, dest) ==
    FRANK_ASSERT(w, distance(a, b) >= 0,
        memmove(w, dest, a, IF distance(a, b) > 0 THEN distance(a, b) - 1
                            ELSE 0))

\* DynamicArray::move_range / copy_range from a block (the memcpy branch)
move_range(w, a, b, dest) ==
    FRANK_ASSERT(w, distance(a, b) >= 0, memmove(w, dest, a, distance(a, b)))

\* DynamicArray::copy_range from a caller's contiguous range src
copy_range(w, src, dest) ==
    IF w.status # "ok" THEN w
    ELSE IF ~InBlock(w.heap, dest, Len(src)) THEN [w EXCEPT !.status = "ub"]
    ELSE [w EXCEPT !.heap = WriteCells(@, dest, src)]

\* A growth policy that adds one cell instead of doubling
calc_next_capacity_one_more(i) == IF is_empty(i) THEN 1 ELSE capacity(i) + 1

\* DynamicArray::calc_next_capacity
calc_next_capacity(i) == IF is_empty(i) THEN 1 ELSE capacity(i) * 2

\* Impl::swap_without_allocator, as seen from *this: the two triads are
\* exchanged; the pair is <<this, other>>.
swap_without_allocator(this, other) == <<other, this>>

\* The world of a local Impl new_impl living in the heap of w.
Local(w, i) == [w EXCEPT !.impl = i]

\* DynamicArray::grow
grow(w, sz, fill) ==
    FRANK_ASSERT(w, sz > capacity(w.impl),
        LET n1 == init_self(Local(w, NullImpl), sz, fill) IN
        IF n1.status # "ok" THEN Local(n1, w.impl)
        ELSE IF is_null(w.impl)
        THEN LET sw == swap_without_allocator(w.impl, n1.impl) IN
             Local(ImplDtor(Local(n1, sw[2])), sw[1])
        ELSE
        LET n2 == move_range(n1, w.impl.first, w.impl.last, n1.impl.first)
            n3 == advance(n2, size(w.impl))
        IN  IF n3.status # "ok" THEN Local(n3, w.impl)
            ELSE LET sw  == swap_without_allocator(w.impl, n3.impl)
                     old == [sw[2] EXCEPT !.last = sw[2].first]
                 IN  Local(ImplDtor(Local(n3, old)), sw[1]))

\* DynamicArray::shrink.  impl.swap(new_impl) names no member of Impl; both
\* swaps Impl has exchange the triad, which is what is modelled.
shrink(w, sz, fill) ==
    FRANK_ASSERT(w, sz < capacity(w.impl),
    FRANK_ASSERT(w, sz >= size(w.impl),
        LET n1 == init_self(Local(w, NullImpl), sz, fill) IN
        IF n1.status # "ok" THEN Local(n1, w.impl)
        ELSE
        LET n2 == move_range(n1, w.impl.first, w.impl.last, n1.impl.first)
        IN  IF n2.status # "ok" THEN Local(n2, w.impl)
            ELSE LET sw  == swap_without_allocator(w.impl, n2.impl)
                     old == [sw[2] EXCEPT !.last = sw[2].first]
                 IN  Local(ImplDtor(Local(n2, old)), sw[1])))

\* DynamicArray::shrink_to_fit
shrink_to_fit(w, fill) == shrink(w, size(w.impl), fill)

\* DynamicArray::reserve
reserve(w, sz, fill) ==
    FRANK_ASSERT(w, sz > size(w.impl),
        IF sz <= capacity(w.impl) THEN w ELSE grow(w, sz, fill))

\* DynamicArray::emplace_back / push_back
emplace_back(w, v, fill) ==
    LET g == IF is_full(w.impl)
             THEN grow(w, calc_next_capacity(w.impl), fill) ELSE w
    IN  advance(construct_item(g, g.impl.last, v), 1)

push_back(w, v, fill) == emplace_back(w, v, fill)

\* DynamicArray::pop_back
pop_back(w) ==
    FRANK_ASSERT(w, ~is_empty(w.impl),
        LET p == prev(w, 1) IN destroy_item(p, p.impl.last))

\* DynamicArray::emplace / insert
emplace(w, idx, v) ==
    FRANK_ASSERT(w, is_idx_valid(w.impl, idx),
        LET m == move_range_right(w, PtrAdd(w.impl.first, idx + 1),
                                  w.impl.last, 1)
        IN  advance(construct_item(m, PtrAdd(m.impl.first, idx), v), 1))

insert(w, idx, v) == emplace(w, idx, v)

\* DynamicArray::erase
erase(w, idx) ==
    FRANK_ASSERT(w, is_idx_valid(w.impl, idx),
        IF idx = size(w.impl) - 1 THEN pop_back(w)
        ELSE LET d == destroy_item(w, PtrAdd(w.impl.first, idx))
                 m == move_range_left(d, PtrAdd(d.impl.first, idx + 1),
                                      d.impl.last, 1)
             IN  prev(m, 1))

\* DynamicArray::clear
clear(w) ==
    LET d == destroy_self(w) IN
    IF d.status # "ok" THEN d ELSE [d EXCEPT !.impl.last = d.impl.first]

\* DynamicArray::assign(It a, It b) with a contiguous source of ints
assign(w, src, fill) ==
    LET d == destroy_self(w)
        g == IF d.status = "ok" /\ Len(src) > capacity(d.impl)
             THEN grow(d, Len(src), fill) ELSE d
    IN  advance(copy_range(g, src, g.impl.first), Len(src))

\* ----------------------------------------------------------------------
\* Part A: the program calling the public members of one DynamicArray<int>
\* ----------------------------------------------------------------------

WA == World(implA, heapA, statusA)

\* The part of [first, last) that lies inside the block, as a sequence.
SeenA(i, h) ==
    LET n == Min(size(i), Len(CellsOf(h, i.first)) - i.first.off) IN
    [k \in 1..n |-> CellsOf(h, i.first)[i.first.off + k]]

\* What a call starts from: recorded with the call for the properties.
PreA == [null |-> is_null(implA), first |-> implA.first,
         size |-> size(implA),
         cap |-> capacity(implA), seq |-> SeenA(implA, heapA)]

NoPre == [null |-> TRUE, first |-> Null, size |-> 0, cap |-> 0, seq |-> <<>>]

OpRec(name, n, v, src, pre, paired, orig) ==
    [name |-> name, n |-> n, v |-> v, src |-> src, pre |-> pre,
     paired |-> paired, orig |-> orig, ret |-> nullopt]

\* A call of name with arguments n / v / src that leaves the world w.
CallA(w, name, n, v, src) ==
    /\ statusA = "ok"
    /\ implA' = w.impl
    /\ heapA' = w.heap
    /\ statusA' = w.status
    /\ opA' = [OpRec(name, n, v, src, PreA,
                     /\ name = "insert"
                     /\ opA.name = "erase"
                     /\ opA.n = n
                     /\ n < Len(opA.pre.seq)
                     /\ opA.pre.seq[n + 1] = v,
                     IF name = "insert" /\ opA.name = "erase"
                     THEN opA.pre.seq ELSE <<>>) EXCEPT !.ret = w.ret]
    /\ pushedA' = IF name = "push_back" /\ pushedA.pure
                  THEN [pure |-> TRUE, seq |-> Append(pushedA.seq, v)]
                  ELSE [pure |-> FALSE, seq |-> <<>>]
    /\ UNCHANGED restA

\* The arbitrary value of a fresh block, chosen only when one is allocated.
Fills(needed) == IF needed THEN Val ELSE {1}

\* While the program of part A runs, the objects of part B do not exist.
IdleB ==
    /\ objsB = <<>>
    /\ heapB = <<>>
    /\ statusB = "idle"
    /\ opB = <<>>

InitA ==
    /\ IdleB
    /\ IdleG
    /\ implA = NullImpl
    /\ heapA = [b \in BufA |-> FreeBlock]
    /\ statusA = "ok"
    /\ opA = OpRec("ctor", 0, 0, <<>>, NoPre, FALSE, <<>>)
    /\ pushedA = [pure |-> TRUE, seq |-> <<>>]

PushBackA ==
    \E v \in Val : \E fill \in Fills(is_full(implA)) :
        /\ is_full(implA) => calc_next_capacity(implA) <= MaxCap
        /\ CallA(push_back(WA, v, fill), "push_back", 0, v, <<>>)

\* The append-only program: a default-constructed array and nothing but
\* push_back.
PushOnlyA ==
    \E v \in Val : \E fill \in Fills(is_full(implA)) :
        /\ size(implA) < MaxPush
        /\ CallA(push_back(WA, v, fill), "push_back", 0, v, <<>>)

PopBackA == CallA(pop_back(WA), "pop_back", 0, 0, <<>>)

InsertA ==
    \E idx \in 0..MaxCap : \E v \in Val :
        CallA(insert(WA, idx, v), "insert", idx, v, <<>>)

EraseA ==
    \E idx \in 0..MaxCap : CallA(erase(WA, idx), "erase", idx, 0, <<>>)

AssignA ==
    \E src \in SeqUpTo(Val, MaxSrc) :
        \E fill \in Fills(Len(src) > capacity(implA)) :
            CallA(assign(WA, src, fill), "assign", 0, 0, src)

ClearA == CallA(clear(WA), "clear", 0, 0, <<>>)

ReserveA ==
    \E sz \in 0..MaxCap : \E fill \in Fills(sz > capacity(implA)) :
        CallA(reserve(WA, sz, fill), "reserve", sz, 0, <<>>)

GrowA ==
    \E sz \in 0..MaxCap : \E fill \in Fills(sz > capacity(implA)) :
        CallA(grow(WA, sz, fill), "grow", sz, 0, <<>>)

ShrinkA ==
    \E sz \in 0..MaxCap : \E fill \in Fills(sz < capacity(implA)) :
        CallA(shrink(WA, sz, fill), "shrink", sz, 0, <<>>)

ShrinkToFitA ==
    \E fill \in Fills(size(implA) < capacity(implA)) :
        CallA(shrink_to_fit(WA, fill), "shrink_to_fit", 0, 0, <<>>)

NextA ==
    \/ PushBackA
    \/ PopBackA
    \/ InsertA
    \/ EraseA
    \/ AssignA
    \/ ClearA
    \/ ReserveA
    \/ GrowA
    \/ ShrinkA
    \/ ShrinkToFitA

SpecA == InitA /\ [][NextA]_vars

SpecPushA == InitA /\ [][PushOnlyA]_vars

\* ----------------------------------------------------------------------
\* Part A: properties
\* ----------------------------------------------------------------------

\* C1: from a default-constructed array, N calls of push_back with values
\* v0..v(N-1) leave size() == N and operator[](i) == vi for every i < N,
\* whatever reallocations happened on the way (checked under SpecPushA).
C1_PushBackKeepsInsertionOrder ==
    pushedA.pure =>
        /\ statusA = "ok"
        /\ size(implA) = Len(pushedA.seq)
        /\ InBlock(heapA, implA.first, size(implA))
        /\ Contents(implA, heapA) = pushedA.seq

\* C1 witness: five values appended, the buffer reallocated up to 8 slots,
\* and the two ends of the sequence differ.
C1_Witness ==
    /\ pushedA.pure
    /\ Len(pushedA.seq) = 5
    /\ capacity(implA) = 8
    /\ Contents(implA, heapA)[1] # Contents(implA, heapA)[5]

\* C2: after any sequence of public mutators that ran to completion, the
\* triad satisfies first <= last <= capacity, and a null first comes with
\* a null last and a null capacity.
C2_TriadOrdered ==
    statusA = "ok" =>
        /\ 0 <= size(implA)
        /\ size(implA) <= capacity(implA)
        /\ implA.first = Null => (implA.last = Null /\ implA.capacity = Null)

\* C3: grow(n) with n > capacity(), called in a well-formed state
\* (unallocated, allocated but empty, partly filled or full), completes
\* without an assertion failure, keeps size() and the live sequence, and
\* makes capacity() == n.
C3_GrowKeepsElements ==
    (opA.name = "grow" /\ opA.n > opA.pre.cap /\ opA.pre.size <= opA.pre.cap)
        => /\ statusA = "ok"
           /\ size(implA) = opA.pre.size
           /\ SeenA(implA, heapA) = opA.pre.seq
           /\ capacity(implA) = opA.n

\* C4: shrink_to_fit() on an array with 0 < size() < capacity() keeps
\* size() and the live sequence and makes capacity() == size().
C4_ShrinkToFitKeepsElements ==
    (opA.name = "shrink_to_fit" /\ 0 < opA.pre.size
                                /\ opA.pre.size < opA.pre.cap)
        => /\ statusA = "ok"
           /\ size(implA) = opA.pre.size
           /\ SeenA(implA, heapA) = opA.pre.seq
           /\ capacity(implA) = opA.pre.size

\* C7: for a non-empty array s and an index i < size(), x = s[i];
\* erase(i); insert(i, x) gives back exactly the sequence and size of s.
C7_EraseThenInsertRestores ==
    (opA.name = "insert" /\ opA.paired /\ Len(opA.orig) <= opA.pre.cap)
        => /\ statusA = "ok"
           /\ size(implA) = Len(opA.orig)
           /\ SeenA(implA, heapA) = opA.orig

\* ----------------------------------------------------------------------
\* Part B: src/unnamed/part_003, first class
\* ----------------------------------------------------------------------

\* The heap of part B has MaxBuf blocks; allocate throws std::bad_alloc
\* when none is free.
MaxBuf == 3

\* The capacities the program of part B asks for stay within MaxCapB.
MaxCapB == 2

BufB == 1..MaxBuf

ObjNames == {"a", "b"}

\* The elements are of a type like std::string: not trivially copyable or
\* destructible, a copy constructor that may throw, a noexcept move
\* constructor; two distinguishable values.
ValB == {"x", "y"}

\* A cell holds a constructed element (its value) or is uninitialized
\* storage (Raw).
Raw == "raw"

NoObj == [alive |-> FALSE, m_first |-> Null, m_last |-> Null,
          m_capacity |-> Null]

\* DynamicArray() noexcept = default
DefaultObj == [NoObj EXCEPT !.alive = TRUE]

\* What one call did: calls of allocate / deallocate / construct /
\* destroy, and constructed elements given up with a deallocated block.
NoCnt == [alloc |-> 0, dealloc |-> 0, ctor |-> 0, dtor |-> 0, dropped |-> 0]

\* The world of a call: the objects, the heap, the exception in flight
\* (exc), the pointer returned by the last allocate (ret), the element an
\* accessor returned (val), the element and the range the caller passed
\* (item, src), and the environment's choices: allocFail (the allocator
\* refuses) and copyFail (the copyFail-th copy construction of the call
\* throws).
WorldB(allocFail, copyFail) ==
    [objs |-> objsB, heap |-> heapB, status |-> statusB, exc |-> "none",
     ret |-> Null, val |-> "none", cnt |-> NoCnt, allocFail |-> allocFail,
     copyFail |-> copyFail, copies |-> 0, item |-> "none", src |-> <<>>]

RunningB(w) == w.status = "ok" /\ w.exc = "none"

\* DynamicArray::size / capacity / is_empty / is_full
sizeB(ob) == distance(ob.m_first, ob.m_last)
capacityB(ob) == distance(ob.m_first, ob.m_capacity)
is_emptyB(ob) == sizeB(ob) = 0
is_fullB(ob) == sizeB(ob) = capacityB(ob)

\* DynamicArray::impl_calc_growth
impl_calc_growth(ob) == IF capacityB(ob) = 0 THEN 1 ELSE capacityB(ob) * 2

\* DynamicArray::impl_allocate: AT::allocate; the pointer is left in ret
impl_allocate(w, sz) ==
    IF ~RunningB(w) THEN w
    ELSE IF w.allocFail \/ FreeBufs(w.heap) = {}
    THEN [w EXCEPT !.exc = "bad_alloc"]
    ELSE LET b == NewBuf(w.heap) IN
         [w EXCEPT !.heap[b] = [live |-> TRUE, cells |-> [k \in 1..sz |-> Raw]],
                   !.ret = Ptr(b, 0),
                   !.cnt.alloc = @ + 1]

\* The constructed elements among cells
Constructed(cells) == Cardinality({k \in 1..Len(cells) : cells[k] # Raw})

\* DynamicArray::impl_deallocate: AT::deallocate(first, distance(first,
\* last)); it also runs while an exception unwinds (ScopeGuard callbacks).
impl_deallocate(w, first, last) ==
    IF w.status # "ok" \/ first = Null THEN w
    ELSE IF first.off # 0 \/ ~w.heap[first.buf].live
    THEN [w EXCEPT !.status = "bad_free"]
    ELSE IF distance(first, last) # Len(w.heap[first.buf].cells)
    THEN [w EXCEPT !.status = "bad_dealloc_size"]
    ELSE [w EXCEPT !.heap[first.buf] = FreeBlock,
                   !.cnt.dealloc = @ + 1,
                   !.cnt.dropped = @ + Constructed(w.heap[first.buf].cells)]

\* DynamicArray::impl_destroy_range: AT::destroy on every cell of
\* [first, last); destroying storage that holds no element is undefined.
impl_destroy_range(w, first, last) ==
    LET n == distance(first, last) IN
    IF w.status # "ok" \/ n = 0 THEN w
    ELSE IF n < 0 \/ ~InBlock(w.heap, first, n)
    THEN [w EXCEPT !.status = "oob"]
    ELSE IF \E k \in 1..n : w.heap[first.buf].cells[first.off + k] = Raw
    THEN [w EXCEPT !.status = "destroy_raw"]
    ELSE [w EXCEPT !.heap = WriteCells(@, first, [k \in 1..n |-> Raw]),
                   !.cnt.dtor = @ + n]

\* DynamicArray::impl_destroy_item
impl_destroy_item(w, p) == impl_destroy_range(w, p, PtrAdd(p, 1))

\* DynamicArray::impl_construct_item(p, const T&): AT::construct with the
\* copy constructor, which may throw
impl_construct_item(w, p, v) ==
    IF ~RunningB(w) THEN w
    ELSE IF w.copies + 1 = w.copyFail
    THEN [w EXCEPT !.exc = "copy", !.copies = @ + 1]
    ELSE IF ~InBlock(w.heap, p, 1) THEN [w EXCEPT !.status = "oob"]
    ELSE [w EXCEPT !.heap = WriteCells(@, p, <<v>>),
                   !.cnt.ctor = @ + 1,
                   !.copies = @ + 1]

\* std::uninitialized_copy(src, dest): copy-constructs in order; when the
\* k-th copy throws, the k-1 elements constructed so far are destroyed and
\* the exception is rethrown.
uninitialized_copy(w, src, dest) ==
    LET n == Len(src)
        k == IF w.copyFail > w.copies /\ w.copyFail <= w.copies + n
             THEN w.copyFail - w.copies ELSE 0
    IN  IF ~RunningB(w) \/ n = 0 THEN w
        ELSE IF \E j \in 1..n : src[j] = Raw
        THEN [w EXCEPT !.status = "read_raw"]
        ELSE IF ~InBlock(w.heap, dest, IF k = 0 THEN n ELSE k - 1)
        THEN [w EXCEPT !.status = "oob"]
        ELSE IF k = 0
        THEN [w EXCEPT !.heap = WriteCells(@, dest, src),
                       !.cnt.ctor = @ + n,
                       !.copies = @ + n]
        ELSE [w EXCEPT !.heap = WriteCells(@, dest, [j \in 1..(k - 1) |-> Raw]),
                       !.cnt.ctor = @ + (k - 1),
                       !.cnt.dtor = @ + (k - 1),
                       !.copies = @ + k,
                       !.exc = "copy"]

\* std::uninitialized_move(first, last, dest) as impl_move_range_raw calls
\* it, with const_pointer sources: std::move of a const element selects
\* the copy constructor, so every element is copy-constructed (which may
\* throw, with the roll-back of uninitialized_copy) and the sources stay
\* as they are.
uninitialized_move(w, first, last, dest) ==
    LET n == distance(first, last) IN
    IF ~RunningB(w) \/ n = 0 THEN w
    ELSE IF n < 0 \/ ~InBlock(w.heap, first, n)
    THEN [w EXCEPT !.status = "oob"]
    ELSE uninitialized_copy(w, ReadCells(w.heap, first, n), dest)

\* DynamicArray::impl_move_range_raw (the branch for a type that is not
\* trivially copyable): noexcept(is_nothrow_move_constructible_v<T>),
\* which is noexcept(true) for the element type, so an exception of a
\* copy that leaves it ends the program in std::terminate.
impl_move_range_raw(w, src_first, src_last, dest) ==
    LET m == uninitialized_move(w, src_first, src_last, dest) IN
    IF RunningB(w) /\ m.status = "ok" /\ m.exc # "none"
    THEN [m EXCEPT !.status = "terminate"]
    ELSE m

\* DynamicArray::impl_copy_range_raw / impl_copy_range_iterator (the
\* branches for a type that is not trivially copyable)
impl_copy_range_raw(w, src_first, src_last, dest) ==
    LET n == distance(src_first, src_last) IN
    IF ~RunningB(w) \/ n = 0 THEN w
    ELSE IF n < 0 \/ ~InBlock(w.heap, src_first, n)
    THEN [w EXCEPT !.status = "oob"]
    ELSE uninitialized_copy(w, ReadCells(w.heap, src_first, n), dest)

impl_copy_range_iterator(w, src, dest) == uninitialized_copy(w, src, dest)

\* A guard whose callback never runs
ScopeGuard_dismissed(w, cleaned) == w

\* utils::ScopeGuard around a block: ~ScopeGuard runs the callback unless
\* dismiss() was reached, that is unless the block left by an exception.
\* w is the world the block ends in, cleaned the world after the callback.
ScopeGuard(w, cleaned) ==
    LET m_active == w.exc # "none" IN
    IF w.status = "ok" /\ m_active THEN cleaned ELSE w

\* The members of object o set to a triad
SetTriad(w, o, f, l, c) ==
    [w EXCEPT !.objs[o].m_first = f, !.objs[o].m_last = l,
              !.objs[o].m_capacity = c]

SetLast(w, o, l) == [w EXCEPT !.objs[o].m_last = l]

\* A bound check that lets the index size() through
impl_index_bound_check_past_end(w, o, i) ==
    IF RunningB(w) /\ i > sizeB(w.objs[o])
    THEN [w EXCEPT !.exc = "out_of_range"] ELSE w

\* DynamicArray::impl_index_bound_check / impl_empty_check
impl_index_bound_check(w, o, i) ==
    IF RunningB(w) /\ i >= sizeB(w.objs[o])
    THEN [w EXCEPT !.exc = "out_of_range"] ELSE w

impl_empty_check(w, o) ==
    IF RunningB(w) /\ is_emptyB(w.objs[o])
    THEN [w EXCEPT !.exc = "out_of_range"] ELSE w

\* A grow that lets go of its storage when the allocation fails
growB_resets_on_failure(w, o, sz) ==
    LET a1 == impl_allocate(w, sz) IN
    IF ~RunningB(w) THEN w
    ELSE IF sz <= sizeB(w.objs[o]) THEN [w EXCEPT !.exc = "out_of_range"]
    ELSE IF ~RunningB(a1) THEN SetTriad(a1, o, Null, Null, Null)
    ELSE SetTriad(a1, o, a1.ret, a1.ret, PtrAdd(a1.ret, sz))

\* DynamicArray::grow
growB(w, o, sz) ==
    LET ob == w.objs[o] IN
    IF ~RunningB(w) THEN w
    ELSE IF sz <= sizeB(ob) THEN [w EXCEPT !.exc = "out_of_range"]
    ELSE IF ob.m_first = Null
    THEN LET a1 == impl_allocate(w, sz) IN
         IF ~RunningB(a1) THEN a1
         ELSE SetTriad(a1, o, a1.ret, a1.ret, PtrAdd(a1.ret, sz))
    ELSE
    LET a1           == impl_allocate(w, sz)
        new_first    == a1.ret
        new_last     == PtrAdd(new_first, sizeB(ob))
        new_capacity == PtrAdd(new_first, sz)
        m1 == impl_move_range_raw(a1, ob.m_first,
                                  PtrAdd(ob.m_first, sizeB(ob)), new_first)
        g1 == ScopeGuard(m1, impl_deallocate(m1, new_first, new_capacity))
    IN  IF ~RunningB(a1) THEN a1
        ELSE IF ~RunningB(g1) THEN g1
        ELSE impl_deallocate(
                 SetTriad(g1, o, new_first, new_last, new_capacity),
                 ob.m_first, ob.m_capacity)

\* A reserve that asks grow for sz slots only
reserveB_ignores_size(w, o, sz) ==
    LET ob == w.objs[o] IN
    IF sz > capacityB(ob) THEN growB(w, o, sz) ELSE w

\* DynamicArray::reserve
reserveB(w, o, sz) ==
    LET ob == w.objs[o] IN
    IF sizeB(ob) + sz > capacityB(ob) THEN growB(w, o, sizeB(ob) + sz)
    ELSE w

\* A shrink_fit that reallocates even when the array is full
shrink_fitB_always_reallocates(w, o) ==
    LET ob == w.objs[o] IN
    IF ~RunningB(w) THEN w
    ELSE
    LET a1           == impl_allocate(w, sizeB(ob))
        new_first    == a1.ret
        new_last     == PtrAdd(new_first, sizeB(ob))
        new_capacity == PtrAdd(new_first, sizeB(ob))
        m1 == impl_move_range_raw(a1, ob.m_first, ob.m_last, new_first)
        g1 == ScopeGuard(m1, impl_deallocate(m1, new_first, new_capacity))
    IN  IF ~RunningB(a1) THEN a1
        ELSE IF ~RunningB(g1) THEN g1
        ELSE impl_deallocate(
                 SetTriad(g1, o, new_first, new_last, new_capacity),
                 ob.m_first, ob.m_capacity)

\* DynamicArray::shrink_fit
shrink_fitB(w, o) ==
    LET ob == w.objs[o] IN
    IF ~RunningB(w) \/ is_fullB(ob) THEN w
    ELSE
    LET a1           == impl_allocate(w, sizeB(ob))
        new_first    == a1.ret
        new_last     == PtrAdd(new_first, sizeB(ob))
        new_capacity == PtrAdd(new_first, sizeB(ob))
        m1 == impl_move_range_raw(a1, ob.m_first, ob.m_last, new_first)
        g1 == ScopeGuard(m1, impl_deallocate(m1, new_first, new_capacity))
    IN  IF ~RunningB(a1) THEN a1
        ELSE IF ~RunningB(g1) THEN g1
        ELSE impl_deallocate(
                 SetTriad(g1, o, new_first, new_last, new_capacity),
                 ob.m_first, ob.m_capacity)

\* DynamicArray::emplace_back / push_back(const T&)
emplace_backB(w, o, v) ==
    LET g == IF is_fullB(w.objs[o])
             THEN growB(w, o, impl_calc_growth(w.objs[o])) ELSE w
        c == impl_construct_item(g, g.objs[o].m_last, v)
    IN  IF ~RunningB(c) THEN c
        ELSE SetLast(c, o, PtrAdd(c.objs[o].m_last, 1))

push_backB(w, o, v) == emplace_backB(w, o, v)

\* DynamicArray::pop_back
pop_backB(w, o) ==
    LET e == impl_empty_check(w, o)
        l == SetLast(e, o, PtrAdd(e.objs[o].m_last, 0 - 1))
    IN  IF ~RunningB(e) THEN e
        ELSE impl_destroy_item(l, l.objs[o].m_last)

\* A clear that destroys the elements and keeps last where it was
clearB_keeps_last(w, o) ==
    impl_destroy_range(w, w.objs[o].m_first, w.objs[o].m_last)

\* DynamicArray::clear
clearB(w, o) ==
    LET d == impl_destroy_range(w, w.objs[o].m_first, w.objs[o].m_last) IN
    IF d.status # "ok" THEN d ELSE SetLast(d, o, d.objs[o].m_first)

\* DynamicArray::at
atB(w, o, i) ==
    LET c == impl_index_bound_check(w, o, i) IN
    IF ~RunningB(c) THEN c
    ELSE IF ~InBlock(c.heap, PtrAdd(c.objs[o].m_first, i), 1)
    THEN [c EXCEPT !.status = "oob"]
    ELSE [c EXCEPT !.val = CellsOf(c.heap, c.objs[o].m_first)
                               [c.objs[o].m_first.off + i + 1]]

\* DynamicArray::operator[] used to assign element i: no check, an index
\* that designates no element is undefined behaviour.
index_assignB(w, o, i, v) ==
    LET p == PtrAdd(w.objs[o].m_first, i) IN
    IF ~RunningB(w) THEN w
    ELSE IF i >= sizeB(w.objs[o]) \/ ~InBlock(w.heap, p, 1)
    THEN [w EXCEPT !.status = "oob"]
    ELSE IF CellsOf(w.heap, p)[p.off + 1] = Raw
    THEN [w EXCEPT !.status = "read_raw"]
    ELSE [w EXCEPT !.heap = WriteCells(@, p, <<v>>)]

\* DynamicArray::assign_range
assign_rangeB(w, o, src) ==
    LET ob    == w.objs[o]
        count == Len(src)
    IN
    IF ~RunningB(w) THEN w
    ELSE IF count = 0
    THEN LET d == impl_destroy_range(w, ob.m_first, ob.m_last) IN
         IF d.status # "ok" THEN d ELSE SetLast(d, o, ob.m_first)
    ELSE IF count > capacityB(ob)
    THEN
        LET a1           == impl_allocate(w, count)
            new_first    == a1.ret
            new_last     == PtrAdd(new_first, count)
            new_capacity == PtrAdd(new_first, count)
            c1 == impl_copy_range_iterator(a1, src, new_first)
            g1 == ScopeGuard(c1, impl_deallocate(c1, new_first, new_last))
            s1 == SetTriad(g1, o, new_first, new_last, new_capacity)
        IN  IF ~RunningB(a1) THEN a1
            ELSE IF ~RunningB(g1) THEN g1
            ELSE IF ob.m_first # Null
            THEN impl_deallocate(
                     impl_destroy_range(s1, ob.m_first, ob.m_capacity),
                     ob.m_first, ob.m_capacity)
            ELSE s1
    ELSE
        LET d == impl_destroy_range(w, ob.m_first, ob.m_last)
            l == SetLast(d, o, ob.m_first)
            c == impl_copy_range_iterator(l, src, ob.m_first)
        IN  IF ~RunningB(c) THEN c
            ELSE SetLast(c, o, PtrAdd(ob.m_first, count))

\* DynamicArray::impl_iterator_bound_check (the caller's iterator points
\* into the block of m_first, so the comparison is one of offsets)
impl_iterator_bound_check(w, o, it) ==
    IF /\ RunningB(w)
       /\ \/ it.off < w.objs[o].m_first.off
          \/ it.off > w.objs[o].m_last.off
    THEN [w EXCEPT !.exc = "out_of_range"] ELSE w

\* An element that was moved from: constructed, its value given away.
Moved == "moved"

\* std::move_backward(first, last, d_last) shifting up and
\* std::move(first, last, d_first) shifting down, n elements from src to
\* dest: each destination is move-assigned, so it has to hold an element
\* already; assigning to raw storage, or through pointers of two
\* different blocks or of a freed block, is undefined behaviour.  The
\* sources that are not overwritten are left moved from.
move_assign(w, first, last, dest) ==
    LET n == distance(first, last) IN
    IF ~RunningB(w) THEN w
    ELSE IF first.buf # last.buf THEN [w EXCEPT !.status = "dangling"]
    ELSE IF n = 0 THEN w
    ELSE IF n < 0 \/ ~InBlock(w.heap, first, n) \/ ~InBlock(w.heap, dest, n)
    THEN [w EXCEPT !.status = "oob"]
    ELSE IF \E j \in 1..n : CellsOf(w.heap, first)[first.off + j] = Raw
    THEN [w EXCEPT !.status = "read_raw"]
    ELSE IF \E j \in 1..n : CellsOf(w.heap, dest)[dest.off + j] = Raw
    THEN [w EXCEPT !.status = "assign_raw"]
    ELSE [w EXCEPT !.heap =
            WriteCells(WriteCells(@, first, [j \in 1..n |-> Moved]),
                       dest, ReadCells(@, first, n))]

\* DynamicArray::impl_move_segment_up / impl_move_segment_down (the
\* branches for a type that is not trivially copyable)
impl_move_segment_up(w, first, last, offset) ==
    move_assign(w, first, last, PtrAdd(first, offset))

impl_move_segment_down(w, first, last, offset) ==
    move_assign(w, first, last, PtrAdd(first, 0 - offset))

\* A function declared noexcept(true) for the element type: an exception
\* that would leave it ends the program in std::terminate.
Noexcept(w) ==
    IF w.status = "ok" /\ w.exc # "none"
    THEN [w EXCEPT !.status = "terminate"] ELSE w

\* DynamicArray::emplace / insert_item (pos is converted to pointer where
\* the helpers take one)
emplaceB(w, o, pos, v) ==
    LET c == impl_iterator_bound_check(w, o, pos)
        g == IF RunningB(c) /\ is_fullB(c.objs[o])
             THEN growB(c, o, impl_calc_growth(c.objs[o])) ELSE c
        m == impl_move_segment_up(g, pos, g.objs[o].m_last, 1)
        k == impl_construct_item(m, pos, v)
    IN  IF ~RunningB(k) THEN k
        ELSE SetLast(k, o, PtrAdd(k.objs[o].m_last, 1))

\* DynamicArray::erase_item
erase_itemB(w, o, pos) ==
    LET c == impl_iterator_bound_check(w, o, pos)
        m_last == c.objs[o].m_last
        l == SetLast(c, o, PtrAdd(m_last, 0 - 1))
        d == impl_destroy_item(c, pos)
        m == impl_move_segment_down(d, PtrAdd(pos, 1), m_last, 1)
    IN  Noexcept(
            IF ~RunningB(c) THEN c
            ELSE IF pos = m_last
            THEN impl_destroy_item(l, l.objs[o].m_last)
            ELSE IF ~RunningB(m) THEN m
            ELSE SetLast(m, o, PtrAdd(m_last, 0 - 1)))

\* DynamicArray::erase_range
erase_rangeB(w, o, first, last) ==
    LET c == impl_iterator_bound_check(
                 impl_iterator_bound_check(w, o, first), o, last)
        m_last == c.objs[o].m_last
        count == distance(first, last)
        d == impl_destroy_range(c, first, last)
        m == impl_move_segment_down(d, PtrAdd(last, 1), m_last, count)
    IN  Noexcept(
            IF ~RunningB(c) \/ first = last THEN c
            ELSE IF ~RunningB(m) THEN m
            ELSE SetLast(m, o, PtrAdd(m_last, 0 - count)))

\* for (; last != first + count; ++last) impl_construct_item(last, item):
\* the loops of assign_fill; when the k-th construction throws, k-1
\* elements stand constructed at first.
construct_loop(w, first, count, item) ==
    LET k == IF w.copyFail > w.copies /\ w.copyFail <= w.copies + count
             THEN w.copyFail - w.copies ELSE 0
        done == IF k = 0 THEN count ELSE k - 1
    IN  IF ~RunningB(w) \/ count = 0 THEN w
        ELSE IF ~InBlock(w.heap, first, done)
        THEN [w EXCEPT !.status = "oob"]
        ELSE [w EXCEPT !.heap = WriteCells(@, first, [j \in 1..done |-> item]),
                       !.cnt.ctor = @ + done,
                       !.copies = @ + (IF k = 0 THEN count ELSE k),
                       !.exc = IF k = 0 THEN "none" ELSE "copy"]

\* The elements a construct_loop that started in world w has constructed
\* when it ends in world c
Advanced(w, c) == c.cnt.ctor - w.cnt.ctor

\* DynamicArray::assign_fill
assign_fillB(w, o, count, item) ==
    LET ob == w.objs[o] IN
    IF ~RunningB(w) \/ count = 0 THEN w
    ELSE IF count > capacityB(ob)
    THEN
        LET a1           == impl_allocate(w, count)
            new_first    == a1.ret
            new_capacity == PtrAdd(new_first, count)
            c1 == construct_loop(a1, new_first, count, item)
            new_last     == PtrAdd(new_first, Advanced(a1, c1))
            g1 == ScopeGuard(c1,
                      impl_deallocate(
                          impl_destroy_range(c1, new_first, new_last),
                          new_first, new_capacity))
            s1 == SetTriad(g1, o, new_first, new_last, new_capacity)
        IN  IF ~RunningB(a1) THEN a1
            ELSE IF ~RunningB(g1) THEN g1
            ELSE IF ob.m_first # Null
            THEN impl_deallocate(
                     impl_destroy_range(s1, ob.m_first, ob.m_capacity),
                     ob.m_first, ob.m_capacity)
            ELSE s1
    ELSE
        LET d  == impl_destroy_range(w, ob.m_first, ob.m_last)
            c  == construct_loop(d, ob.m_first, count, item)
            l  == SetLast(c, o, PtrAdd(ob.m_first, Advanced(d, c)))
        IN  IF d.status # "ok" THEN d
            ELSE ScopeGuard(l, impl_destroy_range(l, ob.m_first,
                                                  l.objs[o].m_last))

\* A constructor that leaves by an exception constructs no object: no
\* destructor will run for it.
CtorExit(w, o) ==
    IF w.exc # "none" THEN [w EXCEPT !.objs[o] = NoObj] ELSE w

\* A range constructor that reserves one slot more than the range needs
range_ctorB_reserves_more(w, o, src) ==
    CtorExit(assign_rangeB(reserveB([w EXCEPT !.objs[o] = DefaultObj], o,
                                    Len(src) + 1), o, src), o)

\* DynamicArray(It first, It last, const Allocator&) and
\* DynamicArray(std::initializer_list<T>, const Allocator&)
range_ctorB(w, o, src) ==
    CtorExit(assign_rangeB([w EXCEPT !.objs[o] = DefaultObj], o, src), o)

\* A copy constructor that copies the three pointers, not the elements
copy_ctorB_shares_buffer(w, o, other) ==
    [w EXCEPT !.objs[o] = [w.objs[other] EXCEPT !.alive = TRUE]]

\* DynamicArray(const DynamicArray& other, const Allocator&), the target
\* of DynamicArray(const DynamicArray& other)
copy_ctorB(w, o, other) ==
    LET src == w.objs[other]
        w0  == [w EXCEPT !.objs[o] = DefaultObj]
        sz  == sizeB(src)
        a1  == impl_allocate(w0, sz)
        t1  == SetTriad(a1, o, a1.ret, PtrAdd(a1.ret, sz), PtrAdd(a1.ret, sz))
    IN  IF is_emptyB(src) THEN w0
        ELSE IF ~RunningB(a1) THEN CtorExit(a1, o)
        ELSE CtorExit(impl_copy_range_raw(t1, src.m_first, src.m_last,
                                          t1.objs[o].m_first), o)

\* A move constructor that forgets to null the source
move_ctorB_keeps_source(w, o, other) ==
    [w EXCEPT !.objs[o] = [w.objs[other] EXCEPT !.alive = TRUE]]

\* DynamicArray(DynamicArray&& other) noexcept
move_ctorB(w, o, other) ==
    LET src == w.objs[other] IN
    [w EXCEPT !.objs[o] = [alive |-> TRUE, m_first |-> src.m_first,
                           m_last |-> src.m_last,
                           m_capacity |-> src.m_capacity],
              !.objs[other] = DefaultObj]

\* ~DynamicArray
dtorB(w, o) ==
    LET ob == w.objs[o]
        d  == impl_deallocate(impl_destroy_range(w, ob.m_first, ob.m_last),
                              ob.m_first, ob.m_capacity)
    IN  IF d.status # "ok" THEN d ELSE [d EXCEPT !.objs[o] = NoObj]

\* ----------------------------------------------------------------------
\* Part B: the program
\* ----------------------------------------------------------------------

\* operator[] on every index below size() of object ob
ContentsB(ob, h) ==
    [k \in 1..sizeB(ob) |-> CellsOf(h, ob.m_first)[ob.m_first.off + k]]

Other(o) == CHOOSE p \in ObjNames : p # o

IdleA ==
    /\ implA = NullImpl
    /\ heapA = <<>>
    /\ statusA = "idle"
    /\ opA = <<>>
    /\ pushedA = <<>>

\* What the caller holds of its last call: which call it was (name,
\* object, argument n, the copy that was to fail k, whether the allocator
\* was to refuse af), what came back (exception, returned element,
\* counters of the allocator) and what the objects and the heap were when
\* it called (pre); copied holds from a successful copy construction for
\* as long as the copy and its source both live.
OpRecB(name, o, n, k, w, copied) ==
    [name |-> name, obj |-> o, n |-> n, k |-> k, af |-> w.allocFail,
     exc |-> w.exc, val |-> w.val, cnt |-> w.cnt, item |-> w.item,
     src |-> w.src,
     pre |-> [objs |-> objsB, heap |-> heapB], copied |-> copied]

NoCallB(copied) ==
    [name |-> "none", obj |-> "a", n |-> 0, k |-> 0, af |-> FALSE,
     exc |-> "none", val |-> "none", cnt |-> NoCnt, item |-> "none",
     src |-> <<>>, pre |-> <<>>, copied |-> copied]

\* The caller calls name on object o; the call leaves the world w.
CallB(w, name, o, n, k) ==
    /\ statusB = "ok"
    /\ opB.name = "none"
    /\ objsB' = w.objs
    /\ heapB' = w.heap
    /\ statusB' = w.status
    /\ opB' = OpRecB(name, o, n, k, w,
                     IF name = "copy_ctor" THEN RunningB(w)
                     ELSE opB.copied /\ name # "dtor")
    /\ UNCHANGED restB

\* The caller has looked at the outcome of its call (caught the exception,
\* used the returned element) and goes on to its next call.
ReturnB ==
    /\ statusB = "ok"
    /\ opB.name # "none"
    /\ opB' = NoCallB(opB.copied)
    /\ UNCHANGED <<objsB, heapB, statusB>>
    /\ UNCHANGED restB

InitB ==
    /\ IdleA
    /\ IdleG
    /\ objsB = [o \in ObjNames |-> IF o = "a" THEN DefaultObj ELSE NoObj]
    /\ heapB = [b \in BufB |-> FreeBlock]
    /\ statusB = "ok"
    /\ opB = NoCallB(FALSE)

DefaultCtorB ==
    \E o \in ObjNames :
        /\ ~objsB[o].alive
        /\ CallB([WorldB(FALSE, 0) EXCEPT !.objs[o] = DefaultObj],
                 "default_ctor", o, 0, 0)

RangeCtorB ==
    \E o \in ObjNames : \E src \in SeqUpTo(ValB, MaxSrc) :
    \E allocFail \in BOOLEAN : \E k \in 0..Len(src) :
        /\ ~objsB[o].alive
        /\ CallB(range_ctorB([WorldB(allocFail, k) EXCEPT !.src = src],
                             o, src),
                 "range_ctor", o, Len(src), k)

\* Copy construction of o from the other object; the element copies of
\* this program succeed, the allocation may fail.
CopyCtorB ==
    \E o \in ObjNames : \E allocFail \in BOOLEAN :
        /\ ~objsB[o].alive
        /\ objsB[Other(o)].alive
        /\ CallB(copy_ctorB(WorldB(allocFail, 0), o, Other(o)),
                 "copy_ctor", o, 0, 0)

MoveCtorB ==
    \E o \in ObjNames :
        /\ ~objsB[o].alive
        /\ objsB[Other(o)].alive
        /\ CallB(move_ctorB(WorldB(FALSE, 0), o, Other(o)),
                 "move_ctor", o, 0, 0)

DtorB ==
    \E o \in ObjNames :
        /\ objsB[o].alive
        /\ CallB(dtorB(WorldB(FALSE, 0), o), "dtor", o, 0, 0)

PushBackB ==
    \E o \in ObjNames : \E v \in ValB :
    \E allocFail \in BOOLEAN : \E k \in 0..(sizeB(objsB[o]) + 1) :
        /\ objsB[o].alive
        /\ is_fullB(objsB[o]) => impl_calc_growth(objsB[o]) <= MaxCapB
        /\ CallB(push_backB(WorldB(allocFail, k), o, v),
                 "push_back", o, 0, 0)

PopBackB ==
    \E o \in ObjNames :
        /\ objsB[o].alive
        /\ CallB(pop_backB(WorldB(FALSE, 0), o), "pop_back", o, 0, 0)

ClearB ==
    \E o \in ObjNames :
        /\ objsB[o].alive
        /\ CallB(clearB(WorldB(FALSE, 0), o), "clear", o, 0, 0)

ReserveB ==
    \E o \in ObjNames : \E sz \in 0..MaxCapB :
    \E allocFail \in BOOLEAN : \E k \in 0..sizeB(objsB[o]) :
        /\ objsB[o].alive
        /\ sizeB(objsB[o]) + sz <= MaxCapB
        /\ CallB(reserveB(WorldB(allocFail, k), o, sz), "reserve", o, 0, 0)

GrowB ==
    \E o \in ObjNames : \E sz \in 0..MaxCapB :
    \E allocFail \in BOOLEAN : \E k \in 0..sizeB(objsB[o]) :
        /\ objsB[o].alive
        /\ CallB(growB(WorldB(allocFail, k), o, sz), "grow", o, sz, 0)

ShrinkFitB ==
    \E o \in ObjNames :
    \E allocFail \in BOOLEAN : \E k \in 0..sizeB(objsB[o]) :
        /\ objsB[o].alive
        /\ CallB(shrink_fitB(WorldB(allocFail, k), o), "shrink_fit", o, 0, 0)

AtB ==
    \E o \in ObjNames : \E i \in 0..MaxCapB :
        /\ objsB[o].alive
        /\ CallB(atB(WorldB(FALSE, 0), o, i), "at", o, i, 0)

IndexAssignB ==
    \E o \in ObjNames : \E i \in 0..(MaxCapB - 1) : \E v \in ValB :
        /\ objsB[o].alive
        /\ i < sizeB(objsB[o])
        /\ CallB(index_assignB(WorldB(FALSE, 0), o, i, v),
                 "index_assign", o, 0, 0)

AssignRangeB ==
    \E o \in ObjNames : \E src \in SeqUpTo(ValB, MaxSrc) :
    \E allocFail \in BOOLEAN : \E k \in 0..Len(src) :
        /\ objsB[o].alive
        /\ Len(src) <= MaxCapB
        /\ CallB(assign_rangeB(WorldB(allocFail, k), o, src),
                 "assign_range", o, Len(src), k)

AssignFillB ==
    \E o \in ObjNames : \E count \in 0..MaxCapB : \E item \in ValB :
    \E allocFail \in BOOLEAN : \E k \in 0..count :
        /\ objsB[o].alive
        /\ CallB(assign_fillB(WorldB(allocFail, k), o, count, item),
                 "assign_fill", o, count, k)

NextB ==
    \/ DefaultCtorB
    \/ RangeCtorB
    \/ CopyCtorB
    \/ MoveCtorB
    \/ DtorB
    \/ PushBackB
    \/ PopBackB
    \/ ClearB
    \/ ReserveB
    \/ GrowB
    \/ ShrinkFitB
    \/ AtB
    \/ IndexAssignB
    \/ ReturnB

SpecB == InitB /\ [][NextB]_vars

\* The positions a caller passes: begin() + i
PosB(o, i) == PtrAdd(objsB[o].m_first, i)

EmplaceB ==
    \E o \in ObjNames : \E i \in 0..MaxCapB : \E v \in ValB :
    \E allocFail \in BOOLEAN : \E k \in 0..(sizeB(objsB[o]) + 1) :
        /\ objsB[o].alive
        /\ is_fullB(objsB[o]) => impl_calc_growth(objsB[o]) <= MaxCapB
        /\ CallB(emplaceB([WorldB(allocFail, k) EXCEPT !.item = v],
                          o, PosB(o, i), v),
                 "emplace", o, i, 0)

EraseItemB ==
    \E o \in ObjNames : \E i \in (0 - 1)..(MaxCapB + 1) :
        /\ objsB[o].alive
        /\ objsB[o].m_first = Null => i = 0
        /\ CallB(erase_itemB(WorldB(FALSE, 0), o, PosB(o, i)),
                 "erase_item", o, i, 0)

EraseRangeB ==
    \E o \in ObjNames : \E i \in 0..MaxCapB : \E j \in 0..MaxCapB :
        /\ objsB[o].alive
        /\ i <= j
        /\ CallB(erase_rangeB(WorldB(FALSE, 0), o, PosB(o, i), PosB(o, j)),
                 "erase_range", o, <<i, j>>, 0)

\* The program of one array: object a, default-constructed, under calls
\* of its member functions (object b is never constructed).
NextMembersB ==
    \/ PushBackB
    \/ PopBackB
    \/ ClearB
    \/ ReserveB
    \/ GrowB
    \/ ShrinkFitB
    \/ AtB
    \/ IndexAssignB
    \/ AssignRangeB
    \/ AssignFillB
    \/ EmplaceB
    \/ EraseItemB
    \/ EraseRangeB
    \/ ReturnB

SpecMembersB == InitB /\ [][NextMembersB]_vars

\* ----------------------------------------------------------------------
\* Part B: properties
\* ----------------------------------------------------------------------

\* The object a call was made on, and the other one, before the call
PreObjB(o) == opB.pre.objs[o]

PreContentsB(o) == ContentsB(opB.pre.objs[o], opB.pre.heap)

\* C5: move construction from a source with elements e0..e(n-1) and
\* capacity c gives a destination with size n, capacity c and the same
\* elements in order, allocates nothing and constructs no element, and
\* leaves the source with all three pointers null (size 0, capacity 0).
C5_MoveCtorTransfers ==
    opB.name = "move_ctor" =>
        LET o   == opB.obj
            src == Other(opB.obj)
        IN  /\ statusB = "ok"
            /\ opB.exc = "none"
            /\ objsB[o].alive
            /\ sizeB(objsB[o]) = sizeB(PreObjB(src))
            /\ capacityB(objsB[o]) = capacityB(PreObjB(src))
            /\ ContentsB(objsB[o], heapB) = PreContentsB(src)
            /\ opB.cnt = NoCnt
            /\ heapB = opB.pre.heap
            /\ objsB[src].alive
            /\ objsB[src].m_first = Null
            /\ objsB[src].m_last = Null
            /\ objsB[src].m_capacity = Null
            /\ sizeB(objsB[src]) = 0
            /\ capacityB(objsB[src]) = 0

\* A move construction from a source that held an element and had spare
\* capacity.
C5_Witness ==
    /\ opB.name = "move_ctor"
    /\ sizeB(PreObjB(Other(opB.obj))) >= 1
    /\ capacityB(PreObjB(Other(opB.obj))) > sizeB(PreObjB(Other(opB.obj)))
    /\ sizeB(objsB[opB.obj]) >= 1

\* C6: copy construction from any source (empty and unallocated ones
\* included) gives an array with the same elements in order, size ==
\* capacity == the source's size and a buffer of its own, and leaves the
\* source as it was; afterwards push_back, pop_back, an element write or
\* clear on the copy or on the source leaves the other one's pointers,
\* size, capacity and contents unchanged.
C6_CopyCtorIndependent ==
    /\ (opB.name = "copy_ctor" /\ opB.exc = "none") =>
        LET o   == opB.obj
            src == Other(opB.obj)
        IN  /\ statusB = "ok"
            /\ objsB[o].alive
            /\ ContentsB(objsB[o], heapB) = PreContentsB(src)
            /\ sizeB(objsB[o]) = sizeB(PreObjB(src))
            /\ capacityB(objsB[o]) = sizeB(PreObjB(src))
            /\ objsB[src] = PreObjB(src)
            /\ ContentsB(objsB[src], heapB) = PreContentsB(src)
            /\ \/ objsB[o].m_first = Null
               \/ objsB[o].m_first.buf # objsB[src].m_first.buf
    /\ (/\ opB.copied
        /\ opB.name \in {"push_back", "pop_back", "index_assign", "clear"}) =>
        LET other == Other(opB.obj) IN
            /\ objsB[other] = PreObjB(other)
            /\ sizeB(objsB[other]) = sizeB(PreObjB(other))
            /\ capacityB(objsB[other]) = capacityB(PreObjB(other))
            /\ ContentsB(objsB[other], heapB) = PreContentsB(other)

\* An element of a copy has been overwritten while its source lives, and
\* the two arrays, equal before, now differ.
C6_Witness ==
    /\ opB.copied
    /\ opB.name = "index_assign"
    /\ PreContentsB("a") = PreContentsB("b")
    /\ ContentsB(objsB["a"], heapB) # ContentsB(objsB["b"], heapB)

\* C8: at(i) signals out_of_range for every i >= size() (on an empty or
\* unallocated array for every i) and returns element i for every
\* i < size(); the pointers and the contents are as before the call.
C8_AtChecksIndex ==
    opB.name = "at" =>
        /\ statusB = "ok"
        /\ objsB = opB.pre.objs
        /\ heapB = opB.pre.heap
        /\ IF opB.n >= sizeB(PreObjB(opB.obj))
           THEN opB.exc = "out_of_range"
           ELSE /\ opB.exc = "none"
                /\ opB.val = PreContentsB(opB.obj)[opB.n + 1]

\* at(size()) on an array that holds elements has signalled out_of_range.
C8_Witness ==
    /\ opB.name = "at"
    /\ opB.exc = "out_of_range"
    /\ sizeB(objsB[opB.obj]) >= 1
    /\ opB.n = sizeB(objsB[opB.obj])

\* C9: constructing from a range of length n when the k-th element copy
\* fails (k <= n) propagates the failure, destroys the k-1 elements
\* already constructed once each, deallocates the fresh buffer once, and
\* leaves no allocation and no element behind.
C9_RangeCtorCopyFailure ==
    (opB.name = "range_ctor" /\ opB.k >= 1 /\ opB.exc # "bad_alloc") =>
        /\ statusB = "ok"
        /\ opB.exc = "copy"
        /\ opB.cnt.alloc = 1
        /\ opB.cnt.dealloc = 1
        /\ opB.cnt.ctor = opB.k - 1
        /\ opB.cnt.dtor = opB.k - 1
        /\ opB.cnt.dropped = 0
        /\ ~objsB[opB.obj].alive
        /\ objsB = opB.pre.objs
        /\ heapB = opB.pre.heap

\* The second copy of a range construction has failed.
C9_Witness ==
    /\ opB.name = "range_ctor"
    /\ opB.exc = "copy"
    /\ opB.k = 2
    /\ opB.cnt.dtor = 1

\* C10: when the allocator fails in push_back / emplace_back, grow,
\* reserve or shrink_fit, the failure propagates and the array is exactly
\* as before the call: same pointers, size, capacity and contents, no
\* buffer adopted or released.
C10_AllocFailureKeepsArray ==
    opB.name \in {"push_back", "grow", "reserve", "shrink_fit"} =>
        /\ opB.af => opB.cnt.alloc = 0
        /\ opB.exc = "bad_alloc" =>
            /\ statusB = "ok"
            /\ objsB = opB.pre.objs
            /\ heapB = opB.pre.heap
            /\ opB.cnt = NoCnt
            /\ sizeB(objsB[opB.obj]) = sizeB(PreObjB(opB.obj))
            /\ capacityB(objsB[opB.obj]) = capacityB(PreObjB(opB.obj))
            /\ ContentsB(objsB[opB.obj], heapB) = PreContentsB(opB.obj)

\* push_back on a full array that holds elements has met a failing
\* allocator.
C10_Witness ==
    /\ opB.name = "push_back"
    /\ opB.exc = "bad_alloc"
    /\ sizeB(objsB[opB.obj]) >= 1
    /\ is_fullB(objsB[opB.obj])

\* C11: when an element construction fails part-way through assign_fill
\* or assign_range, on the reallocating path or on the in-place path, the
\* array is left with exactly the size, capacity and contents it had
\* before the call, and no new buffer stays allocated.
C11_AssignFailureKeepsArray ==
    (opB.name \in {"assign_fill", "assign_range"} /\ opB.exc = "copy") =>
        /\ statusB = "ok"
        /\ sizeB(objsB[opB.obj]) = sizeB(PreObjB(opB.obj))
        /\ capacityB(objsB[opB.obj]) = capacityB(PreObjB(opB.obj))
        /\ ContentsB(objsB[opB.obj], heapB) = PreContentsB(opB.obj)
        /\ FreeBufs(heapB) = FreeBufs(opB.pre.heap)

\* C12: assign(a, b) on an array in any state replaces all live contents:
\* afterwards size() is the length n of the source range and element i is
\* the i-th element of the source for every i < n.
C12_AssignReplacesContents ==
    opA.name = "assign" =>
        /\ statusA = "ok"
        /\ size(implA) = Len(opA.src)
        /\ SeenA(implA, heapA) = opA.src

\* s with x put in front of its element number i (counting from 0)
InsertAt(s, i, x) ==
    [k \in 1..(Len(s) + 1) |->
        IF k <= i THEN s[k] ELSE IF k = i + 1 THEN x ELSE s[k - 1]]

\* s without its elements number i .. j-1 (counting from 0)
RemoveRange(s, i, j) ==
    [k \in 1..(Len(s) - (j - i)) |-> IF k <= i THEN s[k] ELSE s[k + (j - i)]]

\* C13: emplace / insert_item of x at position i, 0 <= i <= size(), on an
\* array holding s, full or not, that returns normally gives the sequence
\* s[0..i) ++ [x] ++ s[i..size), size() one larger, and last <= capacity.
C13_EmplaceInsertsAt ==
    (/\ opB.name = "emplace"
     /\ opB.exc = "none"
     /\ opB.n <= sizeB(PreObjB(opB.obj))) =>
        /\ statusB = "ok"
        /\ sizeB(objsB[opB.obj]) = sizeB(PreObjB(opB.obj)) + 1
        /\ sizeB(objsB[opB.obj]) <= capacityB(objsB[opB.obj])
        /\ ContentsB(objsB[opB.obj], heapB)
               = InsertAt(PreContentsB(opB.obj), opB.n, opB.item)

\* C14: erase_range(i, j), 0 <= i <= j <= size(), on an array holding s
\* gives s[0..i) ++ s[j..size) with size() smaller by j - i and the order
\* of the remaining elements kept; erase_item(i), i < size(), is the case
\* j = i + 1.
C14_EraseRemovesRange ==
    /\ (/\ opB.name = "erase_range"
        /\ opB.n[2] <= sizeB(PreObjB(opB.obj))) =>
        /\ statusB = "ok"
        /\ opB.exc = "none"
        /\ sizeB(objsB[opB.obj])
               = sizeB(PreObjB(opB.obj)) - (opB.n[2] - opB.n[1])
        /\ ContentsB(objsB[opB.obj], heapB)
               = RemoveRange(PreContentsB(opB.obj), opB.n[1], opB.n[2])
    /\ (/\ opB.name = "erase_item"
        /\ opB.n >= 0
        /\ opB.n < sizeB(PreObjB(opB.obj))) =>
        /\ statusB = "ok"
        /\ opB.exc = "none"
        /\ sizeB(objsB[opB.obj]) = sizeB(PreObjB(opB.obj)) - 1
        /\ ContentsB(objsB[opB.obj], heapB)
               = RemoveRange(PreContentsB(opB.obj), opB.n, opB.n + 1)

\* C15: erase_item with a position outside [first, last) (before first,
\* end(), past end(), any position on an empty array) signals an
\* out-of-range error and leaves size, capacity and contents unchanged.
C15_EraseItemChecksPosition ==
    (/\ opB.name = "erase_item"
     /\ (opB.n < 0 \/ opB.n >= sizeB(PreObjB(opB.obj)))) =>
        /\ statusB = "ok"
        /\ opB.exc = "out_of_range"
        /\ objsB = opB.pre.objs
        /\ heapB = opB.pre.heap

\* ---------------------------------------------------------------------
\* core::DynamicArray (src/unnamed/part_005, the first class of that
\* name).  It has the same three pointer members and reaches the
\* allocator through one-line wrappers of the same allocator_traits calls,
\* so its one array is object "a" of the variables above.
\* ---------------------------------------------------------------------

\* core::DynamicArray::m_calc_growth
m_calc_growth(ob) ==
    IF capacityB(ob) = 0 THEN 1
    ELSE IF capacityB(ob) <= 1024 THEN capacityB(ob) * 2
    ELSE (capacityB(ob) * 3) \div 2

\* core::DynamicArray::m_move_range (the branch for a type that is not
\* trivially copyable): std::uninitialized_move through pointer, which
\* leaves every source element moved from
m_move_range(w, src_first, src_last, dest) ==
    LET n == distance(src_first, src_last) IN
    IF ~RunningB(w) \/ n = 0 THEN w
    ELSE IF n < 0 \/ ~InBlock(w.heap, src_first, n) \/ ~InBlock(w.heap, dest, n)
    THEN [w EXCEPT !.status = "oob"]
    ELSE IF \E j \in 1..n : CellsOf(w.heap, src_first)[src_first.off + j] = Raw
    THEN [w EXCEPT !.status = "read_raw"]
    ELSE [w EXCEPT !.heap =
            WriteCells(WriteCells(@, dest, ReadCells(@, src_first, n)),
                       src_first, [j \in 1..n |-> Moved]),
                   !.cnt.ctor = @ + n]

\* core::DynamicArray::clear
clearC(w, o) ==
    LET d == impl_destroy_range(w, w.objs[o].m_first, w.objs[o].m_last)
    IN  IF ~RunningB(d) THEN d ELSE SetLast(d, o, d.objs[o].m_first)

\* core::DynamicArray::resize
resizeC(w, o, n) ==
    LET ob == w.objs[o]
        sz == sizeB(ob)
        c == clearC(w, o)
        f == impl_deallocate(c, c.objs[o].m_first, c.objs[o].m_capacity)
        a == impl_allocate(w, n)
        new_first == a.ret
        new_last == IF n > sz THEN PtrAdd(new_first, sz)
                    ELSE PtrAdd(new_first, n)
        new_capacity == PtrAdd(new_first, n)
        t == IF ob.m_first = Null THEN a
             ELSE IF n > sz
             THEN LET m == m_move_range(a, ob.m_first, ob.m_last, new_first)
                  IN  impl_deallocate(m, ob.m_first, ob.m_capacity)
             ELSE LET d == impl_destroy_range(a, PtrAdd(ob.m_first, n),
                                              ob.m_last)
                      m == m_move_range(d, ob.m_first, PtrAdd(ob.m_first, n),
                                        new_first)
                  IN  impl_deallocate(m, ob.m_first, ob.m_capacity)
    IN  IF ~RunningB(w) THEN w
        ELSE IF n = 0
        THEN IF ~RunningB(f) THEN f ELSE SetTriad(f, o, Null, Null, Null)
        ELSE IF n = sz THEN w
        ELSE IF ~RunningB(a) THEN a
        ELSE IF ~RunningB(t) THEN t
        ELSE SetTriad(t, o, new_first, new_last, new_capacity)

\* core::DynamicArray::reserve
reserveC(w, o, n) ==
    IF sizeB(w.objs[o]) + n > capacityB(w.objs[o])
    THEN resizeC(w, o, sizeB(w.objs[o]) + n) ELSE w

\* core::DynamicArray::push_back(const T&)
push_backC(w, o, v) ==
    LET g == IF w.objs[o].m_last = w.objs[o].m_capacity
             THEN resizeC(w, o, m_calc_growth(w.objs[o])) ELSE w
        k == impl_construct_item(g, g.objs[o].m_last, v)
    IN  IF ~RunningB(k) THEN k
        ELSE SetLast(k, o, PtrAdd(k.objs[o].m_last, 1))

\* core::DynamicArray::pop_back
pop_backC(w, o) ==
    IF w.objs[o].m_first = Null THEN [w EXCEPT !.exc = "out_of_range"]
    ELSE LET l == SetLast(w, o, PtrAdd(w.objs[o].m_last, 0 - 1))
         IN  impl_destroy_item(l, l.objs[o].m_last)

PushBackC ==
    \E v \in ValB : \E allocFail \in BOOLEAN :
        /\ objsB["a"].m_last = objsB["a"].m_capacity
               => m_calc_growth(objsB["a"]) <= MaxCapB
        /\ CallB(push_backC(WorldB(allocFail, 0), "a", v),
                 "core_push_back", "a", 0, 0)

PopBackC ==
    /\ objsB["a"].alive
    /\ CallB(pop_backC(WorldB(FALSE, 0), "a"), "core_pop_back", "a", 0, 0)

ClearC ==
    /\ objsB["a"].alive
    /\ CallB(clearC(WorldB(FALSE, 0), "a"), "core_clear", "a", 0, 0)

ReserveC ==
    \E n \in 0..MaxCapB : \E allocFail \in BOOLEAN :
        /\ sizeB(objsB["a"]) + n <= MaxCapB
        /\ CallB(reserveC(WorldB(allocFail, 0), "a", n),
                 "core_reserve", "a", n, 0)

ResizeC ==
    \E n \in 0..MaxCapB : \E allocFail \in BOOLEAN :
        CallB(resizeC(WorldB(allocFail, 0), "a", n), "core_resize", "a", n, 0)

NextC ==
    \/ PushBackC
    \/ PopBackC
    \/ ClearC
    \/ ReserveC
    \/ ResizeC
    \/ ReturnB

\* A core::DynamicArray, default-constructed, under calls of its members
SpecC == InitB /\ [][NextC]_vars

\* C16: pop_back of core::DynamicArray on an array with size() == 0,
\* never allocated or allocated and empty, fails with an out-of-range
\* error and leaves the array unchanged; m_last never goes below m_first.
C16_PopBackOnEmptyFails ==
    /\ sizeB(objsB["a"]) >= 0
    /\ (opB.name = "core_pop_back" /\ sizeB(PreObjB("a")) = 0) =>
        /\ statusB = "ok"
        /\ opB.exc = "out_of_range"
        /\ objsB = opB.pre.objs
        /\ heapB = opB.pre.heap

\* ---------------------------------------------------------------------
\* Part A: the growth policy of push_back
\* ---------------------------------------------------------------------

\* A default-constructed array under push_back, allowed to grow the array
\* up to MaxPush elements, and the calls that change how full it is.
NextGrowthA ==
    \/ PushOnlyA
    \/ PopBackA
    \/ ReserveA

SpecGrowthA == InitA /\ [][NextGrowthA]_vars

\* The smallest power of two that is >= n, for n >= 1
RECURSIVE PowerOfTwoFrom(_, _)
PowerOfTwoFrom(p, n) == IF p >= n THEN p ELSE PowerOfTwoFrom(2 * p, n)

\* C17: push_back on a full array of capacity c leaves capacity 1 if
\* c == 0 and 2c otherwise; push_back on an array that is not full leaves
\* the capacity unchanged; after N >= 1 push_backs on a default-constructed
\* array the capacity is the smallest power of two >= N.
C17_PushBackGrowthPolicy ==
    /\ (opA.name = "push_back" /\ opA.pre.size = opA.pre.cap) =>
        /\ statusA = "ok"
        /\ capacity(implA) = IF opA.pre.cap = 0 THEN 1 ELSE 2 * opA.pre.cap
    /\ (opA.name = "push_back" /\ opA.pre.size # opA.pre.cap) =>
        capacity(implA) = opA.pre.cap
    /\ (pushedA.pure /\ Len(pushedA.seq) >= 1) =>
        /\ statusA = "ok"
        /\ capacity(implA) = PowerOfTwoFrom(1, Len(pushedA.seq))

C17_Witness ==
    /\ opA.name = "push_back"
    /\ opA.pre.size = opA.pre.cap
    /\ opA.pre.cap = 4
    /\ pushedA.pure
    /\ Len(pushedA.seq) = 5
    /\ capacity(implA) = 8

\* C18: constructing from an initializer list or an iterator pair of
\* length n >= 0 allocates at most once, a block of exactly n slots (none
\* for n = 0), and leaves size() == n, capacity() == n and element i equal
\* to element i of the source.
C18_RangeCtorAllocatesExactly ==
    (opB.name = "range_ctor" /\ opB.exc = "none") =>
        /\ statusB = "ok"
        /\ objsB[opB.obj].alive
        /\ opB.cnt.alloc = (IF opB.n = 0 THEN 0 ELSE 1)
        /\ opB.cnt.dealloc = 0
        /\ objsB[opB.obj].m_first = Null <=> opB.n = 0
        /\ Len(CellsOf(heapB, objsB[opB.obj].m_first)) = opB.n
        /\ Len(opB.src) = opB.n
        /\ sizeB(objsB[opB.obj]) = opB.n
        /\ capacityB(objsB[opB.obj]) = opB.n
        /\ ContentsB(objsB[opB.obj], heapB) = opB.src

\* An array has been constructed from a range of two different elements.
C18_Witness ==
    /\ opB.name = "range_ctor"
    /\ opB.exc = "none"
    /\ opB.src = <<"x", "y">>
    /\ opB.cnt.alloc = 1
    /\ ContentsB(objsB[opB.obj], heapB) = <<"x", "y">>

\* ---------------------------------------------------------------------
\* Part A: sized construction
\* ---------------------------------------------------------------------

\* DynamicArray(size_type sz, const Allocator&): impl(a), whose members
\* are null, then grow(sz)
sized_ctor(w, sz, fill) == grow(Local(w, NullImpl), sz, fill)

\* The program constructs its array with a size instead of by default.
SizedCtorA ==
    \E sz \in 0..MaxCap : \E fill \in Fills(sz > 0) :
        /\ opA.name = "ctor"
        /\ CallA(sized_ctor(WA, sz, fill), "sized_ctor", sz, 0, <<>>)

NextCtorA ==
    \/ SizedCtorA
    \/ PushBackA
    \/ PopBackA
    \/ ClearA

SpecCtorA == InitA /\ [][NextCtorA]_vars

\* C19: the sized construction DynamicArray(n) completes without an
\* assertion failure for every n >= 0 and leaves size() == 0 and
\* capacity() == n.
C19_SizedCtorReserves ==
    opA.name = "sized_ctor" =>
        /\ statusA = "ok"
        /\ size(implA) = 0
        /\ capacity(implA) = opA.n

\* ---------------------------------------------------------------------
\* Part B: the default-constructed array and the calls that do not grow it
\* ---------------------------------------------------------------------

\* DynamicArray::front / back
frontB(w, o) ==
    LET c == impl_empty_check(w, o) IN
    IF ~RunningB(c) THEN c
    ELSE IF ~InBlock(c.heap, c.objs[o].m_first, 1)
    THEN [c EXCEPT !.status = "oob"]
    ELSE [c EXCEPT !.val = CellsOf(c.heap, c.objs[o].m_first)
                               [c.objs[o].m_first.off + 1]]

backB(w, o) ==
    LET c == impl_empty_check(w, o) IN
    IF ~RunningB(c) THEN c
    ELSE IF ~InBlock(c.heap, PtrAdd(c.objs[o].m_last, 0 - 1), 1)
    THEN [c EXCEPT !.status = "oob"]
    ELSE [c EXCEPT !.val = CellsOf(c.heap, c.objs[o].m_last)
                               [c.objs[o].m_last.off]]

FrontB ==
    \E o \in ObjNames :
        /\ objsB[o].alive
        /\ CallB(frontB(WorldB(FALSE, 0), o), "front", o, 0, 0)

BackB ==
    \E o \in ObjNames :
        /\ objsB[o].alive
        /\ CallB(backB(WorldB(FALSE, 0), o), "back", o, 0, 0)

\* Arrays that are default-constructed, used through the members that
\* grow them and the members that do not, and destroyed.
NextDefaultB ==
    \/ DefaultCtorB
    \/ DtorB
    \/ PushBackB
    \/ ReserveB
    \/ PopBackB
    \/ ClearB
    \/ ShrinkFitB
    \/ AssignRangeB
    \/ AtB
    \/ FrontB
    \/ BackB
    \/ ReturnB

SpecDefaultB == InitB /\ [][NextDefaultB]_vars

\* The calls that never grow an array; assign_range is one of them when
\* its range is empty.
NonGrowingCall ==
    \/ opB.name \in {"clear", "shrink_fit", "at", "front", "back", "pop_back"}
    \/ opB.name = "assign_range" /\ opB.n = 0

\* C20: a default-constructed array has size 0, capacity 0 and three null
\* pointers, and the allocator is called neither by the construction nor
\* by a call that does not grow the array (size, capacity, is_empty,
\* is_full, clear, shrink_fit, assign_range of an empty range, a failing
\* at / front / back / pop_back) made before the first growing one.
C20_DefaultArrayNeverAllocates ==
    /\ opB.name = "default_ctor" =>
        /\ statusB = "ok"
        /\ opB.cnt.alloc = 0
        /\ heapB = opB.pre.heap
        /\ objsB[opB.obj] = DefaultObj
        /\ sizeB(objsB[opB.obj]) = 0
        /\ capacityB(objsB[opB.obj]) = 0
    /\ (NonGrowingCall /\ PreObjB(opB.obj) = DefaultObj) =>
        /\ statusB = "ok"
        /\ opB.cnt.alloc = 0
        /\ heapB = opB.pre.heap
        /\ objsB[opB.obj] = DefaultObj
        /\ is_emptyB(objsB[opB.obj])
        /\ is_fullB(objsB[opB.obj])
        /\ opB.name \in {"at", "front", "back", "pop_back"}
               => opB.exc = "out_of_range"
        /\ opB.name \in {"clear", "shrink_fit", "assign_range"}
               => opB.exc = "none"

\* shrink_fit has been called on a default-constructed array while the
\* other array owned a block.
C20_Witness ==
    /\ opB.name = "shrink_fit"
    /\ PreObjB(opB.obj) = DefaultObj
    /\ objsB[opB.obj] = DefaultObj
    /\ opB.cnt.alloc = 0
    /\ \E b \in BufB : heapB[b].live

\* ---------------------------------------------------------------------
\* clear in both classes named frank::DynamicArray
\* ---------------------------------------------------------------------

\* A run is the program of part A or the one-array program of part B.
InitClear == InitA \/ InitB

NextClear ==
    \/ statusA = "ok" /\ NextA
    \/ statusB = "ok" /\ NextMembersB

SpecClear == InitClear /\ [][NextClear]_vars

\* The array of part B held elements in all of [first, last) and last was
\* inside the block when the call was made.
LivePreB(o) ==
    /\ sizeB(PreObjB(o)) >= 0
    /\ sizeB(PreObjB(o)) <= capacityB(PreObjB(o))
    /\ \A k \in 1..sizeB(PreObjB(o)) : PreContentsB(o)[k] # Raw

CopyCtorThrowsB ==
    \E o \in ObjNames : \E k \in 0..sizeB(objsB[Other(o)]) :
        /\ ~objsB[o].alive
        /\ objsB[Other(o)].alive
        /\ CallB(copy_ctorB(WorldB(FALSE, k), o, Other(o)),
                 "copy_ctor", o, 0, k)

\* Arrays that are constructed by default or as copies, grown and
\* destroyed.
NextOwnersB ==
    \/ DefaultCtorB
    \/ CopyCtorThrowsB
    \/ PushBackB
    \/ PopBackB
    \/ DtorB
    \/ ReturnB

SpecOwnersB == InitB /\ [][NextOwnersB]_vars

\* The buffers some living array points at
OwnedBufs == {objsB[o].m_first.buf : o \in {p \in ObjNames : objsB[p].alive}}

\* C22: every buffer returned by allocate is passed to deallocate exactly
\* once: no buffer is live without an array that owns it (none is leaked,
\* also when an allocation or an element construction fails, and none is
\* left after the last destruction), none is released twice, and none is
\* released while an array still points at it.
C22_BuffersReleasedExactlyOnce ==
    /\ statusB # "bad_free"
    /\ statusB = "ok" =>
        /\ \A b \in BufB : heapB[b].live => b \in OwnedBufs
        /\ \A o \in ObjNames :
               (objsB[o].alive /\ objsB[o].m_first # Null)
                   => heapB[objsB[o].m_first.buf].live

\* C23: destroy is invoked only on slots that hold a live element, never
\* on raw slots of [last, capacity), and every element constructed in a
\* buffer (the elements grow, shrink_fit and shrink_lossy leave behind and
\* the elements assign replaces among them) is destroyed before the
\* buffer is deallocated: no call frees a block with an element in it.
C23_ElementsDestroyedBeforeRelease ==
    /\ statusB # "destroy_raw"
    /\ opB.name # "none" => opB.cnt.dropped = 0

\* C24: grow(n) with n not exceeding capacity() is rejected with an error
\* or changes nothing, so that no call of grow or reserve decreases
\* capacity(); grow(n) with n > capacity() that returns normally leaves
\* capacity() == n.
C24_GrowNeverShrinks ==
    /\ (opB.name = "grow" /\ opB.n <= capacityB(PreObjB(opB.obj))) =>
        \/ opB.exc # "none"
        \/ objsB = opB.pre.objs /\ heapB = opB.pre.heap
    /\ opB.name \in {"grow", "reserve"} =>
        capacityB(objsB[opB.obj]) >= capacityB(PreObjB(opB.obj))
    /\ (/\ opB.name = "grow"
        /\ opB.n > capacityB(PreObjB(opB.obj))
        /\ opB.exc = "none"
        /\ statusB = "ok") =>
        capacityB(objsB[opB.obj]) = opB.n

\* ---------------------------------------------------------------------
\* Part A: the accessors that return an optional
\* ---------------------------------------------------------------------

\* DynamicArray::at
at(w, idx) ==
    [w EXCEPT !.ret = IF is_idx_valid(w.impl, idx)
                      THEN [has |-> TRUE, ptr |-> PtrAdd(w.impl.first, idx)]
                      ELSE nullopt]

\* DynamicArray::front
front(w) ==
    [w EXCEPT !.ret = IF is_null(w.impl) THEN nullopt
                      ELSE [has |-> TRUE, ptr |-> w.impl.first]]

\* DynamicArray::back
back(w) ==
    [w EXCEPT !.ret = IF is_null(w.impl) THEN nullopt
                      ELSE [has |-> TRUE, ptr |-> PtrAdd(w.impl.last, 0 - 1)]]

AtA == \E idx \in 0..(MaxCap + 1) : CallA(at(WA, idx), "at", idx, 0, <<>>)

FrontA == statusA = "ok" /\ CallA(front(WA), "front", 0, 0, <<>>)

BackA == statusA = "ok" /\ CallA(back(WA), "back", 0, 0, <<>>)

\* A default-constructed array that is grown, emptied and read through
\* the accessors.
NextAccessA ==
    \/ PushBackA
    \/ PopBackA
    \/ ClearA
    \/ ReserveA
    \/ AtA
    \/ FrontA
    \/ BackA

SpecAccessA == InitA /\ [][NextAccessA]_vars

\* C25: the accessors that return an optional never signal; at(i) returns
\* an empty optional exactly when i >= size(); front() and back() return
\* an empty optional exactly when size() == 0, whether the array is
\* unallocated or allocated and empty, and refer to the elements 0 and
\* size() - 1 otherwise.
C25_OptionalAccessors ==
    /\ opA.name \in {"at", "front", "back"} =>
        /\ statusA = "ok"
        /\ opA.ret.has => InBlock(heapA, opA.ret.ptr, 1)
    /\ opA.name = "at" =>
        /\ opA.ret.has <=> opA.n < size(implA)
        /\ opA.ret.has => opA.ret.ptr = PtrAdd(implA.first, opA.n)
    /\ opA.name = "front" =>
        /\ opA.ret.has <=> size(implA) # 0
        /\ opA.ret.has => opA.ret.ptr = implA.first
    /\ opA.name = "back" =>
        /\ opA.ret.has <=> size(implA) # 0
        /\ opA.ret.has => opA.ret.ptr = PtrAdd(implA.first, size(implA) - 1)

\* ----------------------------------------------------------------------
\* The scope guards: frank::utils::ScopeGuard of
\* src/include/utils/ScopeGuard.hpp and core::ScopeGuard of
\* src/core/DynamicArray.hpp.  The two classes have the same members with
\* the same bodies.  A program constructs guards from the callbacks c1 and
\* c2, move-constructs guards from living guards, calls dismiss() and
\* destroys guards, in any order.
\* ----------------------------------------------------------------------
GuardNames == {"g1", "g2", "g3", "g4"}
Callbacks == {"c1", "c2"}

NoGuard == [life |-> "unborn", m_callback |-> "none", m_active |-> FALSE]

\* explicit ScopeGuard(Callback&& cb) : m_callback(cb), m_active(true)
GuardCtor(cb) == [life |-> "alive", m_callback |-> cb, m_active |-> TRUE]

\* A move constructor that leaves other.m_active as it was.
GuardMoveCtor_keeps_source(gs, g, other) ==
    [gs EXCEPT ![g] = [life |-> "alive",
                       m_callback |-> gs[other].m_callback,
                       m_active |-> gs[other].m_active]]

\* ScopeGuard(ScopeGuard&& other): m_callback(move(other.m_callback)),
\* m_active(other.m_active) { other.m_active = false; }
GuardMoveCtor(gs, g, other) ==
    [gs EXCEPT ![g] = [life |-> "alive",
                       m_callback |-> gs[other].m_callback,
                       m_active |-> gs[other].m_active],
               ![other].m_active = FALSE]

\* void dismiss() noexcept { m_active = false; }
dismiss(gs, g) == [gs EXCEPT ![g].m_active = FALSE]

\* A destructor that runs the callback whatever m_active is
GuardDtorRuns_always(gs, g) == gs[g].m_callback

\* ~ScopeGuard() noexcept { if (m_active) m_callback(); }: the callback
\* the destructor runs, or "none".
GuardDtorRuns(gs, g) ==
    IF gs[g].m_active THEN gs[g].m_callback ELSE "none"

\* guardG.g: the guards; guardG.runs: how often each callback has run;
\* guardG.ranAt: the guard whose destructor ran it; guardG.captured: a
\* guard was constructed from it; guardG.dismissed: dismiss() was called
\* on the guard that was to run it.  Per guard: origin, the guard it was
\* move-constructed from ("none" for a guard constructed from a
\* callback); armed, the value of m_active it was constructed with;
\* called, dismiss() was called on it; passed, a guard was
\* move-constructed from it; ranBy, how often its destructor ran the
\* callback.
InitG ==
    /\ IdleA
    /\ IdleB
    /\ guardG = [g |-> [x \in GuardNames |-> NoGuard],
                 runs |-> [c \in Callbacks |-> 0],
                 ranAt |-> [c \in Callbacks |-> "none"],
                 captured |-> [c \in Callbacks |-> FALSE],
                 dismissed |-> [c \in Callbacks |-> FALSE],
                 origin |-> [x \in GuardNames |-> "none"],
                 armed |-> [x \in GuardNames |-> FALSE],
                 called |-> [x \in GuardNames |-> FALSE],
                 passed |-> [x \in GuardNames |-> FALSE],
                 ranBy |-> [x \in GuardNames |-> 0]]

ConstructG ==
    \E g \in GuardNames, c \in Callbacks :
        /\ guardG.g[g].life = "unborn"
        /\ ~guardG.captured[c]
        /\ guardG' = [guardG EXCEPT !.g[g] = GuardCtor(c),
                                    !.captured[c] = TRUE,
                                    !.armed[g] = TRUE]
        /\ UNCHANGED restG

MoveConstructG ==
    \E g \in GuardNames, other \in GuardNames :
        /\ guardG.g[g].life = "unborn"
        /\ guardG.g[other].life = "alive"
        /\ guardG' = [guardG EXCEPT !.g = GuardMoveCtor(guardG.g, g, other),
                                    !.origin[g] = other,
                                    !.armed[g] = guardG.g[other].m_active,
                                    !.passed[other] = TRUE]
        /\ UNCHANGED restG

DismissG ==
    \E g \in GuardNames :
        /\ guardG.g[g].life = "alive"
        /\ LET c == guardG.g[g].m_callback
           IN guardG' = [guardG EXCEPT
                  !.g = dismiss(guardG.g, g),
                  !.called[g] = TRUE,
                  !.dismissed = IF guardG.g[g].m_active
                                THEN [@ EXCEPT ![c] = TRUE] ELSE @]
        /\ UNCHANGED restG

DestroyG ==
    \E g \in GuardNames :
        /\ guardG.g[g].life = "alive"
        /\ LET c == GuardDtorRuns(guardG.g, g)
           IN guardG' = [guardG EXCEPT
                  !.g[g].life = "dead",
                  !.ranBy[g] = IF c = "none" THEN @ ELSE @ + 1,
                  !.runs = IF c = "none" THEN @
                           ELSE [@ EXCEPT ![c] = @ + 1],
                  !.ranAt = IF c = "none" THEN @
                            ELSE [@ EXCEPT ![c] = g]]
        /\ UNCHANGED restG

NextG ==
    \/ ConstructG
    \/ MoveConstructG
    \/ DismissG
    \/ DestroyG

SpecG == InitG /\ [][NextG]_vars

\* The guards that hold (a moved-from copy of) callback c.
HoldersG(c) == {g \in GuardNames : guardG.g[g].m_callback = c}

\* The scope of callback c has been left: it was captured and no guard
\* holding it lives.
ScopeLeftG(c) ==
    /\ guardG.captured[c]
    /\ \A g \in HoldersG(c) : guardG.g[g].life = "dead"

\* C26: the callback a guard captured runs only in the destructor of a
\* guard holding it and at most once; it never runs once dismiss() was
\* called on the guard responsible for it; and when the scope has been
\* left (every guard holding the callback is destroyed) it has run exactly
\* once if dismiss() was not called and not at all if it was.
C26_GuardRunsOnceUnlessDismissed ==
    guardG # <<>> =>
        \A c \in Callbacks :
            /\ guardG.runs[c] <= 1
            /\ guardG.runs[c] = 1 =>
                   /\ guardG.ranAt[c] \in HoldersG(c)
                   /\ guardG.g[guardG.ranAt[c]].life = "dead"
            /\ guardG.dismissed[c] => guardG.runs[c] = 0
            /\ ScopeLeftG(c) =>
                   (guardG.runs[c] = 1 <=> ~guardG.dismissed[c])

\* A callback moved from g1 to g2 has run once, both guards destroyed,
\* while the other callback was dismissed and did not run.
C26_Witness ==
    /\ guardG # <<>>
    /\ \E c \in Callbacks, d \in Callbacks :
           /\ c # d
           /\ Cardinality(HoldersG(c)) = 2
           /\ ScopeLeftG(c)
           /\ guardG.runs[c] = 1
           /\ ScopeLeftG(d)
           /\ guardG.dismissed[d]
           /\ guardG.runs[d] = 0

\* ----------------------------------------------------------------------
\* Move assignment of the first class of src/unnamed/part_003
\* ----------------------------------------------------------------------
\* A move assignment without the test this == &other.
operator_move_assignB_no_self_test(w, o, other) ==
    LET ob == w.objs[o]
        d  == impl_deallocate(impl_destroy_range(w, ob.m_first, ob.m_last),
                              ob.m_first, ob.m_capacity)
        src == d.objs[other]
    IN  IF d.status # "ok" THEN d
        ELSE LET t == [d EXCEPT !.objs[o] = [alive |-> TRUE,
                                             m_first |-> src.m_first,
                                             m_last |-> src.m_last,
                                             m_capacity |-> src.m_capacity]]
             IN [t EXCEPT !.objs[other] = DefaultObj]

\* DynamicArray& operator=(DynamicArray&& other) noexcept(...)
operator_move_assignB(w, o, other) ==
    IF o = other THEN w
    ELSE
    LET ob == w.objs[o]
        d  == impl_deallocate(impl_destroy_range(w, ob.m_first, ob.m_last),
                              ob.m_first, ob.m_capacity)
        src == d.objs[other]
    IN  IF d.status # "ok" THEN d
        ELSE LET t == [d EXCEPT !.objs[o] = [alive |-> TRUE,
                                             m_first |-> src.m_first,
                                             m_last |-> src.m_last,
                                             m_capacity |-> src.m_capacity]]
             IN [t EXCEPT !.objs[other] = DefaultObj]

\* o = std::move(other); other may be o itself.  The right-hand side is
\* recorded in opB.item.
MoveAssignB ==
    \E o \in ObjNames, other \in ObjNames :
        /\ objsB[o].alive
        /\ objsB[other].alive
        /\ CallB(operator_move_assignB([WorldB(FALSE, 0) EXCEPT !.item = other],
                                       o, other),
                 "move_assign", o, 0, 0)

NextMoveAssignB ==
    \/ DefaultCtorB
    \/ PushBackB
    \/ PopBackB
    \/ ReserveB
    \/ MoveAssignB
    \/ DtorB
    \/ ReturnB

SpecMoveAssignB == InitB /\ [][NextMoveAssignB]_vars

\* C27: a = std::move(b) with a and b distinct destroys each of a's prior
\* elements exactly once, deallocates a's prior buffer exactly once (if a
\* had one), constructs and allocates nothing, gives a exactly b's prior
\* buffer, elements, size and capacity and leaves b with size 0 and
\* capacity 0 (all three pointers null); a = std::move(a) changes nothing.
C27_MoveAssignTransfers ==
    opB.name = "move_assign" =>
        LET o == opB.obj
            other == opB.item
        IN  /\ statusB = "ok"
            /\ opB.exc = "none"
            /\ IF o = other
               THEN /\ objsB = opB.pre.objs
                    /\ heapB = opB.pre.heap
                    /\ opB.cnt = NoCnt
               ELSE /\ opB.cnt.dtor = sizeB(PreObjB(o))
                    /\ opB.cnt.dealloc =
                           (IF PreObjB(o).m_first = Null THEN 0 ELSE 1)
                    /\ PreObjB(o).m_first # Null =>
                           ~heapB[PreObjB(o).m_first.buf].live
                    /\ opB.cnt.ctor = 0
                    /\ opB.cnt.alloc = 0
                    /\ opB.cnt.dropped = 0
                    /\ objsB[o] = PreObjB(other)
                    /\ ContentsB(objsB[o], heapB) = PreContentsB(other)
                    /\ sizeB(objsB[o]) = sizeB(PreObjB(other))
                    /\ capacityB(objsB[o]) = capacityB(PreObjB(other))
                    /\ objsB[other] = DefaultObj
                    /\ sizeB(objsB[other]) = 0
                    /\ capacityB(objsB[other]) = 0

\* a with two elements was move-assigned from b holding one element in a
\* block of two slots.
C27_Witness ==
    /\ statusB = "ok"
    /\ opB.name = "move_assign"
    /\ opB.item # opB.obj
    /\ sizeB(PreObjB(opB.obj)) = 2
    /\ opB.cnt.dtor = 2
    /\ opB.cnt.dealloc = 1
    /\ sizeB(objsB[opB.obj]) = 1
    /\ capacityB(objsB[opB.obj]) = 2

\* a non-empty array was move-assigned from itself.
C27_WitnessSelf ==
    /\ statusB = "ok"
    /\ opB.name = "move_assign"
    /\ opB.item = opB.obj
    /\ sizeB(objsB[opB.obj]) = 2

\* ----------------------------------------------------------------------
\* core::DynamicArray of src/unnamed/part_005: the allocator-extended move
\* constructor.  Object b is constructed from a; equal says whether alloc
\* compares equal to a's allocator.
\* ----------------------------------------------------------------------
\* core::DynamicArray::s_swap
s_swap(w, a, b) ==
    [w EXCEPT !.objs[a] = [w.objs[b] EXCEPT !.alive = w.objs[a].alive],
              !.objs[b] = [w.objs[a] EXCEPT !.alive = w.objs[b].alive]]

\* DynamicArray(DynamicArray&& other, const Allocator& alloc)
move_alloc_ctorC(w, o, other, equal) ==
    LET init == [w EXCEPT !.objs[o] = DefaultObj]
        r == resizeC(init, o, sizeB(init.objs[other]))
    IN  IF equal THEN s_swap(init, o, other)
        ELSE IF ~RunningB(r) THEN CtorExit(r, o)
        ELSE m_move_range(r, r.objs[other].m_first, r.objs[other].m_last,
                          r.objs[o].m_first)

MoveAllocCtorC ==
    \E equal \in BOOLEAN : \E allocFail \in BOOLEAN :
        /\ ~objsB["b"].alive
        /\ CallB(move_alloc_ctorC(WorldB(allocFail, 0), "b", "a", equal),
                 "core_move_alloc_ctor", "b", 0, IF equal THEN 1 ELSE 0)

NextMoveAllocC ==
    \/ NextC
    \/ MoveAllocCtorC

SpecMoveAllocC == InitB /\ [][NextMoveAllocC]_vars

\* C28: DynamicArray(std::move(other), alloc) that completes: with alloc
\* unequal to other's allocator the destination has a fresh buffer of
\* other.size() slots, size() equal to other's prior size and other's
\* prior elements in order; with equal allocators the destination has
\* other's buffer and other is left unallocated.
C28_MoveAllocCtor ==
    (opB.name = "core_move_alloc_ctor" /\ opB.exc = "none") =>
        /\ statusB = "ok"
        /\ IF opB.k = 1
           THEN /\ objsB["b"] = PreObjB("a")
                /\ objsB["a"] = DefaultObj
                /\ opB.cnt.alloc = 0
           ELSE /\ sizeB(PreObjB("a")) > 0 =>
                    /\ opB.cnt.alloc = 1
                    /\ objsB["b"].m_first # PreObjB("a").m_first
                /\ capacityB(objsB["b"]) = sizeB(PreObjB("a"))
                /\ sizeB(objsB["b"]) = sizeB(PreObjB("a"))
                /\ ContentsB(objsB["b"], heapB) = PreContentsB("a")

\* ----------------------------------------------------------------------
\* insert_fill and insert_range of the first class of src/unnamed/part_003
\* (pos is converted to pointer where the helpers take one)
\* ----------------------------------------------------------------------
\* for (size_type i = count; i != 0; --i) impl_construct_item(pos + i - 1,
\* item): the slots are constructed from the top down; when the k-th
\* construction throws, the k-1 topmost slots stand constructed.
construct_loop_down(w, pos, count, item) ==
    LET k == IF w.copyFail > w.copies /\ w.copyFail <= w.copies + count
             THEN w.copyFail - w.copies ELSE 0
        done == IF k = 0 THEN count ELSE k - 1
        low == PtrAdd(pos, count - done)
    IN  IF ~RunningB(w) \/ count = 0 THEN w
        ELSE IF done > 0 /\ ~InBlock(w.heap, low, done)
        THEN [w EXCEPT !.status = "oob"]
        ELSE [w EXCEPT !.heap = WriteCells(@, low, [j \in 1..done |-> item]),
                       !.cnt.ctor = @ + done,
                       !.copies = @ + (IF k = 0 THEN count ELSE k),
                       !.exc = IF k = 0 THEN "none" ELSE "copy"]

\* DynamicArray::insert_fill
insert_fillB(w, o, pos, count, item) ==
    LET c == impl_iterator_bound_check(w, o, pos)
        g == IF sizeB(c.objs[o]) + count > capacityB(c.objs[o])
             THEN growB(c, o, sizeB(c.objs[o]) + count) ELSE c
        m == IF pos # g.objs[o].m_last
             THEN impl_move_segment_up(g, pos, g.objs[o].m_last, count)
             ELSE g
        k == construct_loop_down(m, pos, count, item)
    IN  IF ~RunningB(c) \/ count = 0 THEN c
        ELSE IF ~RunningB(k) THEN k
        ELSE SetLast(k, o, PtrAdd(k.objs[o].m_last, count))

\* DynamicArray::insert_range(pos, first, last), src the range [first, last)
insert_rangeB(w, o, pos, src) ==
    LET c == impl_iterator_bound_check(w, o, pos)
        count == Len(src)
        g == IF sizeB(c.objs[o]) + count > capacityB(c.objs[o])
             THEN growB(c, o, sizeB(c.objs[o]) + count) ELSE c
        m == IF pos # g.objs[o].m_last
             THEN impl_move_segment_up(g, pos, g.objs[o].m_last, count)
             ELSE g
        k == impl_copy_range_iterator(m, src, pos)
    IN  IF ~RunningB(c) \/ src = <<>> THEN c
        ELSE IF ~RunningB(k) THEN k
        ELSE SetLast(k, o, PtrAdd(k.objs[o].m_last, count))

\* a.insert_fill(a.begin() + i, count, v); the inserted elements are
\* recorded in opB.src
InsertFillB ==
    \E i \in 0..MaxCapB : \E count \in 0..MaxSrc : \E v \in ValB :
    \E allocFail \in BOOLEAN : \E k \in 0..MaxCapB :
        /\ objsB["a"].alive
        /\ sizeB(objsB["a"]) + count <= MaxCapB
        /\ CallB(insert_fillB([WorldB(allocFail, k) EXCEPT
                                   !.src = [j \in 1..count |-> v]],
                              "a", PosB("a", i), count, v),
                 "insert_fill", "a", i, 0)

\* a.insert_range(a.begin() + i, first, last)
InsertRangeB ==
    \E i \in 0..MaxCapB : \E src \in SeqUpTo(ValB, MaxSrc) :
    \E allocFail \in BOOLEAN : \E k \in 0..MaxCapB :
        /\ objsB["a"].alive
        /\ sizeB(objsB["a"]) + Len(src) <= MaxCapB
        /\ CallB(insert_rangeB([WorldB(allocFail, k) EXCEPT !.src = src],
                               "a", PosB("a", i), src),
                 "insert_range", "a", i, 0)

NextInsertB ==
    \/ PushBackB
    \/ PopBackB
    \/ ReserveB
    \/ InsertFillB
    \/ InsertRangeB
    \/ ReturnB

SpecInsertB == InitB /\ [][NextInsertB]_vars

\* s with the sequence t put in front of its element number i
InsertSeqAt(s, i, t) ==
    [k \in 1..(Len(s) + Len(t)) |->
        IF k <= i THEN s[k]
        ELSE IF k <= i + Len(t) THEN t[k - i] ELSE s[k - Len(t)]]

\* C29: insert_fill(pos, count, v) and insert_range(pos, first, last) at
\* position i, 0 <= i <= size(), on an array holding s that return
\* normally have called allocate at most once and leave the sequence
\* s[0..i) ++ inserted ++ s[i..size), size() larger by the number of
\* inserted elements.
C29_InsertPutsRangeAt ==
    (/\ opB.name \in {"insert_fill", "insert_range"}
     /\ opB.exc = "none"
     /\ LivePreB(opB.obj)
     /\ opB.n <= sizeB(PreObjB(opB.obj))) =>
        /\ statusB = "ok"
        /\ opB.cnt.alloc <= 1
        /\ sizeB(objsB[opB.obj]) = sizeB(PreObjB(opB.obj)) + Len(opB.src)
        /\ ContentsB(objsB[opB.obj], heapB)
               = InsertSeqAt(PreContentsB(opB.obj), opB.n, opB.src)

\* ----------------------------------------------------------------------
\* core::DynamicArray of src/unnamed/part_005: assign(first, last)
\* ----------------------------------------------------------------------
\* core::DynamicArray::assign(It first, It last) with forward iterators:
\* the public member and the overload for std::forward_iterator_tag it
\* ends in; src is the range [first, last).  m_copy_range_any is
\* std::uninitialized_copy for a type that is not trivially copyable.
assignC(w, o, src) ==
    LET new_size == Len(src)
        c == clearC(w, o)
        ob == c.objs[o]
        a == impl_allocate(c, new_size)
        new_first == a.ret
        f == IF ob.m_first # Null
             THEN impl_deallocate(a, ob.m_first, ob.m_capacity) ELSE a
        g == IF ~RunningB(c) THEN c
             ELSE IF new_size > sizeB(ob)
             THEN IF ~RunningB(a) THEN a
                  ELSE IF ~RunningB(f) THEN f
                  ELSE SetTriad(f, o, new_first, new_first,
                                PtrAdd(new_first, new_size))
             ELSE c
        k == impl_copy_range_iterator(g, src, g.objs[o].m_first)
    IN  IF ~RunningB(k) THEN k
        ELSE SetLast(k, o, k.objs[o].m_capacity)

AssignC ==
    \E src \in SeqUpTo(ValB, MaxSrc) :
    \E allocFail \in BOOLEAN : \E k \in 0..MaxSrc :
        /\ objsB["a"].alive
        /\ CallB(assignC([WorldB(allocFail, k) EXCEPT !.src = src], "a", src),
                 "core_assign", "a", Len(src), 0)

NextAssignC ==
    \/ PushBackC
    \/ PopBackC
    \/ ReserveC
    \/ AssignC
    \/ ReturnB

SpecAssignC == InitB /\ [][NextAssignC]_vars

\* C30: assign(first, last) of core::DynamicArray with a source of length
\* n that returns normally has reused the buffer when n <= capacity() (no
\* call of allocate or deallocate, capacity unchanged) and has otherwise
\* allocated a buffer of exactly n slots; in both cases, n == 0 included,
\* size() == n and the array holds the source elements in order.
C30_AssignReusesBuffer ==
    (/\ opB.name = "core_assign"
     /\ opB.exc = "none"
     /\ LivePreB("a")) =>
        /\ statusB = "ok"
        /\ IF opB.n <= capacityB(PreObjB("a"))
           THEN /\ opB.cnt.alloc = 0
                /\ opB.cnt.dealloc = 0
                /\ capacityB(objsB["a"]) = capacityB(PreObjB("a"))
                /\ objsB["a"].m_first = PreObjB("a").m_first
           ELSE /\ opB.cnt.alloc = 1
                /\ capacityB(objsB["a"]) = opB.n
        /\ sizeB(objsB["a"]) = opB.n
        /\ ContentsB(objsB["a"], heapB) = opB.src

\* C31: when assign(first, last) of core::DynamicArray on a non-empty array
\* has to reallocate (the source is longer than capacity()) and a copy
\* construction into the new buffer throws, the array is left with its
\* prior buffer and prior
\* contents: no old element was destroyed and the old buffer was not
\* deallocated before the new elements stood.
C31_AssignKeepsContentsOnFailure ==
    (/\ opB.name = "core_assign"
     /\ opB.exc = "copy"
     /\ LivePreB("a")
     /\ sizeB(PreObjB("a")) > 0
     /\ opB.n > capacityB(PreObjB("a"))) =>
        /\ statusB = "ok"
        /\ objsB["a"] = PreObjB("a")
        /\ ContentsB(objsB["a"], heapB) = PreContentsB("a")

\* ----------------------------------------------------------------------
\* The second class of src/unnamed/part_003 (the Impl-based draft with
\* FRANK_NOEXCEPT), instantiated with an element type like std::string.
\* It reuses the variables of part B with object a; the fields m_first,
\* m_last and m_capacity stand for impl.first, impl.last and impl.capacity.
\* ----------------------------------------------------------------------
\* The largest capacity a call may ask for.
MaxCapD == 4

\* Impl::init_self on a fresh Impl: the triad is left in ret-relative form
\* (first = ret, last = ret, capacity = ret + sz)
init_selfD(w, sz) ==
    IF sz = 0 THEN [w EXCEPT !.ret = Null] ELSE impl_allocate(w, sz)

\* DynamicArray::calc_next_capacity
calc_next_capacityD(ob) ==
    IF ob.m_first = ob.m_last THEN 1 ELSE capacityB(ob) * 2

\* DynamicArray::grow: new_impl is filled, swapped with impl and, holding
\* the old block, destroyed at the end of the scope (~Impl).
growD(w, o, sz) ==
    LET ob == w.objs[o]
        n1 == init_selfD(w, sz)
        new_first == n1.ret
        m  == m_move_range(n1, ob.m_first, ob.m_last, new_first)
        s  == SetTriad(m, o, new_first, PtrAdd(new_first, sizeB(ob)),
                       PtrAdd(new_first, sz))
    IN  FRANK_ASSERT(w, sz > capacityB(ob),
            IF ~RunningB(n1) THEN n1
            ELSE IF ob.m_first = Null
            THEN SetTriad(n1, o, new_first, new_first, PtrAdd(new_first, sz))
            ELSE IF ~RunningB(m) THEN m
            ELSE impl_deallocate(
                     impl_destroy_range(s, ob.m_first, ob.m_last),
                     ob.m_first, ob.m_capacity))

\* DynamicArray::reserve
reserveD(w, o, sz) ==
    FRANK_ASSERT(w, sz > sizeB(w.objs[o]),
        IF sz <= capacityB(w.objs[o]) THEN w ELSE growD(w, o, sz))

\* Impl::advance: std::advance(last, 1)
advanceD(w, o) == SetLast(w, o, PtrAdd(w.objs[o].m_last, 1))

\* Impl::prev: std::prev(last, 1); the pointer std::prev returns is
\* discarded and last keeps its value
prevD(w, o) == w

\* DynamicArray::emplace_back / push_back
emplace_backD(w, o, v) ==
    LET g == IF w.objs[o].m_last = w.objs[o].m_capacity
             THEN growD(w, o, calc_next_capacityD(w.objs[o])) ELSE w
        k == impl_construct_item(g, g.objs[o].m_last, v)
    IN  IF ~RunningB(k) THEN k ELSE advanceD(k, o)

\* DynamicArray::pop_back
pop_backD(w, o) ==
    FRANK_ASSERT(w, w.objs[o].m_first # w.objs[o].m_last,
        LET p == prevD(w, o) IN impl_destroy_item(p, p.objs[o].m_last))

PushBackD ==
    \E v \in ValB : \E allocFail \in BOOLEAN :
        /\ objsB["a"].alive
        /\ objsB["a"].m_last = objsB["a"].m_capacity
               => calc_next_capacityD(objsB["a"]) <= MaxCapD
        /\ CallB(emplace_backD(WorldB(allocFail, 0), "a", v),
                 "push_back2", "a", 0, 0)

PopBackD ==
    /\ objsB["a"].alive
    /\ CallB(pop_backD(WorldB(FALSE, 0), "a"), "pop_back2", "a", 0, 0)

ReserveD ==
    \E sz \in 0..MaxCapD : \E allocFail \in BOOLEAN :
        /\ objsB["a"].alive
        /\ CallB(reserveD(WorldB(allocFail, 0), "a", sz),
                 "reserve2", "a", sz, 0)

NextD ==
    \/ PushBackD
    \/ PopBackD
    \/ ReserveD
    \/ ReturnB

SpecD == InitB /\ [][NextD]_vars

\* C32: pop_back of the second class on a non-empty array decreases
\* size() by exactly one, destroys exactly the element that was at index
\* size() - 1 and leaves the elements 0 .. size() - 2 and capacity() as
\* they were.
C32_PopBackRemovesLast ==
    (/\ opB.name = "pop_back2"
     /\ sizeB(PreObjB("a")) > 0) =>
        /\ statusB = "ok"
        /\ sizeB(objsB["a"]) = sizeB(PreObjB("a")) - 1
        /\ capacityB(objsB["a"]) = capacityB(PreObjB("a"))
        /\ opB.cnt.dtor = 1
        /\ ContentsB(objsB["a"], heapB)
               = SubSeq(PreContentsB("a"), 1, sizeB(PreObjB("a")) - 1)
        /\ CellsOf(heapB, objsB["a"].m_first)[sizeB(PreObjB("a"))] = Raw

\* ----------------------------------------------------------------------
\* operator== and operator!= of the first class of src/unnamed/part_003,
\* for an equality-comparable element type
\* ----------------------------------------------------------------------
\* m_first[i] of object ob, i counted from 0
ElemB(w, ob, i) == CellsOf(w.heap, ob.m_first)[ob.m_first.off + i + 1]

\* bool operator==(const DynamicArray& other) const
operator_eq(w, o, other) ==
    LET a == w.objs[o]
        b == w.objs[other]
    IN  IF a.m_first = b.m_first THEN TRUE
        ELSE IF sizeB(a) # sizeB(b) THEN FALSE
        ELSE IF is_emptyB(a) /\ is_emptyB(b) THEN TRUE
        ELSE ~\E i \in 0..(sizeB(a) - 1) : ElemB(w, a, i) # ElemB(w, b, i)

\* bool operator!=(const DynamicArray& other) const: the loop returns
\* false at the first pair of equal elements
operator_ne(w, o, other) ==
    LET a == w.objs[o]
        b == w.objs[other]
    IN  IF a.m_first = b.m_first THEN FALSE
        ELSE IF sizeB(a) # sizeB(b) THEN TRUE
        ELSE IF is_emptyB(a) /\ is_emptyB(b) THEN FALSE
        ELSE ~\E i \in 0..(sizeB(a) - 1) : ElemB(w, a, i) = ElemB(w, b, i)

BoolStr(b) == IF b THEN "true" ELSE "false"

\* The caller evaluates o == other and o != other; the two results are
\* recorded in opB.item and opB.val, the right-hand side in opB.k (1 for
\* the same object, 0 for the other one).
CompareB ==
    \E o \in ObjNames, other \in ObjNames :
        /\ objsB[o].alive
        /\ objsB[other].alive
        /\ LET w == WorldB(FALSE, 0) IN
           CallB([w EXCEPT !.item = BoolStr(operator_eq(w, o, other)),
                           !.val = BoolStr(operator_ne(w, o, other))],
                 "compare", o, 0, IF o = other THEN 1 ELSE 0)

NextCompareB ==
    \/ DefaultCtorB
    \/ PushBackB
    \/ PopBackB
    \/ CompareB
    \/ ReturnB

SpecCompareB == InitB /\ [][NextCompareB]_vars

\* The right-hand side of the recorded comparison
RhsB == IF opB.k = 1 THEN opB.obj ELSE Other(opB.obj)

\* C33: for every pair of arrays a and b, a == b holds exactly when the
\* sizes are equal and all corresponding elements are equal, and a != b is
\* the negation of a == b.
C33_NotEqualNegatesEqual ==
    opB.name = "compare" =>
        /\ opB.item = BoolStr(ContentsB(objsB[opB.obj], heapB)
                                  = ContentsB(objsB[RhsB], heapB))
        /\ opB.val = BoolStr(opB.item # "true")

\* ----------------------------------------------------------------------
\* reserve followed by push_back, first class of src/unnamed/part_003.
\* Every step is one complete call on object a.  The history opB of a
\* reserve holds the argument in n; the history of a push_back holds in n
\* the argument of the last reserve that returned normally and in k the
\* number of push_back calls made since, when nothing but push_back was
\* called since that reserve (n = 0 and k = 0 otherwise).
\* ----------------------------------------------------------------------
\* The variables after a complete call that leaves the world w
DoneB(w, name, n, k) ==
    /\ statusB = "ok"
    /\ objsB' = w.objs
    /\ heapB' = w.heap
    /\ statusB' = w.status
    /\ opB' = OpRecB(name, "a", n, k, w, FALSE)
    /\ UNCHANGED restB

ReserveH ==
    \E sz \in 0..MaxCapB : \E allocFail \in BOOLEAN :
    \E c \in 0..sizeB(objsB["a"]) :
        /\ sizeB(objsB["a"]) + sz <= MaxCapB
        /\ DoneB(reserveB(WorldB(allocFail, c), "a", sz), "reserve", sz, 0)

\* The last call was a reserve(k) that returned normally or one of the
\* first k - 1 push_back calls following it.
AfterReserveH ==
    \/ opB.name = "reserve" /\ opB.exc = "none" /\ opB.n > 0
    \/ opB.name = "push_back" /\ opB.k < opB.n

PushBackH ==
    \E v \in ValB : \E allocFail \in BOOLEAN :
    \E c \in 0..(sizeB(objsB["a"]) + 1) :
        /\ is_fullB(objsB["a"]) => impl_calc_growth(objsB["a"]) <= MaxCapB
        /\ DoneB(push_backB(WorldB(allocFail, c), "a", v), "push_back",
                 IF AfterReserveH THEN opB.n ELSE 0,
                 IF AfterReserveH THEN opB.k + 1 ELSE 0)

PopBackH ==
    /\ sizeB(objsB["a"]) > 0
    /\ DoneB(pop_backB(WorldB(FALSE, 0), "a"), "pop_back", 0, 0)

NextReserveB ==
    \/ ReserveH
    \/ PushBackH
    \/ PopBackH

SpecReserveB == InitB /\ [][NextReserveB]_vars

\* C34: a reserve(k) that returns leaves capacity() - size() >= k with
\* size() and the contents as they were, and each of the next k push_back
\* calls allocates nothing and leaves the buffer address m_first as it
\* was.
C34_ReserveMakesRoom ==
    /\ (opB.name = "reserve" /\ opB.exc = "none") =>
        /\ statusB = "ok"
        /\ capacityB(objsB["a"]) - sizeB(objsB["a"]) >= opB.n
        /\ sizeB(objsB["a"]) = sizeB(PreObjB("a"))
        /\ ContentsB(objsB["a"], heapB) = PreContentsB("a")
    /\ (opB.name = "push_back" /\ opB.k >= 1 /\ opB.k <= opB.n) =>
        /\ statusB = "ok"
        /\ opB.cnt.alloc = 0
        /\ opB.cnt.dealloc = 0
        /\ objsB["a"].m_first = PreObjB("a").m_first
        /\ opB.exc = "none" =>
               sizeB(objsB["a"]) = sizeB(PreObjB("a")) + 1

\* reserve(2) on an empty array was followed by two push_back calls, the
\* second of which has just filled the block.
C34_Witness ==
    /\ statusB = "ok"
    /\ opB.name = "push_back"
    /\ opB.exc = "none"
    /\ opB.n = 2
    /\ opB.k = 2
    /\ sizeB(objsB["a"]) = 2
    /\ capacityB(objsB["a"]) = 2

\* ----------------------------------------------------------------------
\* shrink_lossy of the first class of src/unnamed/part_003
\* ----------------------------------------------------------------------
\* DynamicArray::shrink_lossy
shrink_lossyB(w, o, sz) ==
    LET ob == w.objs[o]
        d0 == impl_deallocate(impl_destroy_range(w, ob.m_first, ob.m_last),
                              ob.m_first, ob.m_capacity)
        a1           == impl_allocate(w, sizeB(ob))
        new_first    == a1.ret
        new_last     == PtrAdd(new_first, sz)
        new_capacity == PtrAdd(new_first, sz)
        m1 == impl_move_range_raw(a1, ob.m_first, PtrAdd(ob.m_first, sz),
                                  new_first)
        g1 == ScopeGuard(m1, impl_deallocate(m1, new_first, new_capacity))
        s1 == SetTriad(g1, o, new_first, new_last, new_capacity)
    IN  IF ~RunningB(w) THEN w
        ELSE IF sz >= sizeB(ob) THEN [w EXCEPT !.exc = "out_of_range"]
        ELSE IF sz = 0
        THEN IF d0.status # "ok" THEN d0
             ELSE SetTriad(d0, o, Null, Null, Null)
        ELSE IF ~RunningB(a1) THEN a1
        ELSE IF ~RunningB(g1) THEN g1
        ELSE impl_deallocate(
                 impl_destroy_range(s1, PtrAdd(ob.m_first, sz),
                                    ob.m_capacity),
                 ob.m_first, ob.m_capacity)

ShrinkLossyB ==
    \E sz \in 0..MaxCapB : \E allocFail \in BOOLEAN :
        /\ objsB["a"].alive
        /\ CallB(shrink_lossyB(WorldB(allocFail, 0), "a", sz),
                 "shrink_lossy", "a", sz, 0)

NextShrinkB ==
    \/ DefaultCtorB
    \/ PushBackB
    \/ PopBackB
    \/ ReserveB
    \/ ShrinkFitB
    \/ ShrinkLossyB
    \/ DtorB
    \/ ReturnB

SpecShrinkB == InitB /\ [][NextShrinkB]_vars

\* C35: every deallocate(p, n) passes the count n that the allocate call
\* returning p was given, and the capacity() of an array that owns a
\* buffer equals the count the buffer was allocated with.
C35_DeallocateCountMatches ==
    /\ statusB # "bad_dealloc_size"
    /\ statusB = "ok" =>
        \A o \in ObjNames :
            (objsB[o].alive /\ objsB[o].m_first # Null) =>
                /\ heapB[objsB[o].m_first.buf].live
                /\ capacityB(objsB[o])
                       = Len(heapB[objsB[o].m_first.buf].cells)

\* ----------------------------------------------------------------------
\* frank::List of src/unnamed/part_004 (first class), instantiated as
\* List<int>.  It reuses the variables of part A: implA holds impl.head
\* and impl.tail, heapA the nodes the allocator handed out (a Node* is a
\* node id, nullptr is 0), pushedA the items appended so far, opA the last
\* call.
\* ----------------------------------------------------------------------
\* At most MaxNodes nodes are allocated.
MaxNodes == 4

NodeIds == 1..MaxNodes

NoNode == [live |-> FALSE, prev |-> 0, next |-> 0, item |-> 0]

\* ListNode(Args&&... args): prev {nullptr}, next {nullptr}, item(args...)
ListNode(v) == [live |-> TRUE, prev |-> 0, next |-> 0, item |-> v]

\* The world of a call on the list
WorldL ==
    [impl |-> implA, nodes |-> heapA, status |-> statusA, exc |-> "none",
     ret |-> 0]

\* Impl::is_null
is_nullL(w) == w.impl.head = 0

\* An emplace_back that does not set node->prev
emplace_backL_no_prev(w, node, allocFail, v) ==
    LET c == [w EXCEPT !.nodes[node] = ListNode(v)] IN
    IF allocFail THEN [w EXCEPT !.exc = "bad_alloc"]
    ELSE IF is_nullL(c)
    THEN [c EXCEPT !.impl = [head |-> node, tail |-> node], !.ret = node]
    ELSE [c EXCEPT !.nodes[c.impl.tail].next = node,
                   !.impl.tail = node,
                   !.ret = node]

\* List::emplace_back: allocate_node returns node (or throws when
\* allocFail), construct_node constructs a ListNode<int> holding v in it
emplace_backL(w, node, allocFail, v) ==
    LET c == [w EXCEPT !.nodes[node] = ListNode(v)] IN
    IF allocFail THEN [w EXCEPT !.exc = "bad_alloc"]
    ELSE IF is_nullL(c)
    THEN [c EXCEPT !.impl = [head |-> node, tail |-> node], !.ret = node]
    ELSE [c EXCEPT !.nodes[c.impl.tail].next = node,
                   !.nodes[node].prev = c.impl.tail,
                   !.impl.tail = node,
                   !.ret = node]

\* List::push_back(const T&) noexcept: an exception leaving emplace_back
\* ends the program in std::terminate
push_backL(w, node, allocFail, v) ==
    LET e == emplace_backL(w, node, allocFail, v) IN
    IF e.exc # "none" THEN [e EXCEPT !.status = "terminate"] ELSE e

\* List::head: the item of the head node is left in ret
headL(w) ==
    FRANK_ASSERT(w, ~is_nullL(w), [w EXCEPT !.ret = w.nodes[w.impl.head].item])

\* The variables after a call that leaves the world w
DoneL(w, name, v) ==
    /\ statusA = "ok"
    /\ implA' = w.impl
    /\ heapA' = w.nodes
    /\ statusA' = w.status
    /\ opA' = [name |-> name, exc |-> w.exc, ret |-> w.ret]
    /\ pushedA' = IF name # "head" /\ w.exc = "none"
                  THEN Append(pushedA, v) ELSE pushedA
    /\ UNCHANGED restA

InitL ==
    /\ IdleB
    /\ IdleG
    /\ implA = [head |-> 0, tail |-> 0]
    /\ heapA = [n \in NodeIds |-> NoNode]
    /\ statusA = "ok"
    /\ opA = [name |-> "ctor", exc |-> "none", ret |-> 0]
    /\ pushedA = <<>>

FreeNodes == {n \in NodeIds : ~heapA[n].live}

PushBackL ==
    \E v \in Val : \E node \in FreeNodes : \E allocFail \in BOOLEAN :
        DoneL(push_backL(WorldL, node, allocFail, v), "push_back", v)

EmplaceBackL ==
    \E v \in Val : \E node \in FreeNodes : \E allocFail \in BOOLEAN :
        DoneL(emplace_backL(WorldL, node, allocFail, v), "emplace_back", v)

HeadL == DoneL(headL(WorldL), "head", 0)

NextL ==
    \/ PushBackL
    \/ EmplaceBackL
    \/ HeadL

SpecL == InitL /\ [][NextL]_vars

\* The nodes reached from node n by following next, at most fuel of them
RECURSIVE WalkL(_, _)
WalkL(n, fuel) ==
    IF n = 0 \/ fuel = 0 THEN <<>>
    ELSE <<n>> \o WalkL(heapA[n].next, fuel - 1)

\* C36: after k push_back / emplace_back calls that returned, head is
\* null iff tail is null iff k = 0; head->prev and tail->next are null;
\* following next from head visits exactly k nodes, holding the items in
\* insertion order, and ends at tail; n->next->prev == n for every node
\* with a successor; and head() returns the first item pushed.
C36_ListIsDoublyLinked ==
    statusA = "ok" =>
        LET k == Len(pushedA)
            walk == WalkL(implA.head, MaxNodes + 1)
        IN  /\ (implA.head = 0) <=> (k = 0)
            /\ (implA.tail = 0) <=> (k = 0)
            /\ k > 0 => /\ heapA[implA.head].prev = 0
                        /\ heapA[implA.tail].next = 0
                        /\ walk[Len(walk)] = implA.tail
            /\ Len(walk) = k
            /\ [i \in 1..Len(walk) |-> heapA[walk[i]].item] = pushedA
            /\ \A i \in 1..Len(walk) :
                   /\ heapA[walk[i]].live
                   /\ heapA[walk[i]].next # 0 =>
                          heapA[heapA[walk[i]].next].prev = walk[i]
            /\ (opA.name = "head" /\ k > 0) => opA.ret = pushedA[1]

\* head() was called on a list of three items whose first two differ.
C36_Witness ==
    /\ statusA = "ok"
    /\ opA.name = "head"
    /\ Len(pushedA) = 3
    /\ pushedA[1] # pushedA[2]
    /\ opA.ret = pushedA[1]
    /\ heapA[heapA[implA.tail].prev].prev = implA.head

\* The guards g2 that were move-constructed from a guard g1
MovedPairsG ==
    {p \in GuardNames \X GuardNames : guardG.origin[p[2]] = p[1]}

\* C37: for a guard g2 move-constructed from g1, the destructors of the
\* two guards together run the callback at most once, and never the
\* destructor of g1; when both guards are destroyed, it has run exactly
\* once if g1 was active at the move and dismiss() was not called on g2
\* (g2 keeping the callback, that is no guard being move-constructed from
\* it), and never if g1 was inactive at the move or dismiss() was called
\* on g2.
C37_MoveTransfersArmedState ==
    guardG # <<>> =>
        \A p \in MovedPairsG :
            LET g1 == p[1]
                g2 == p[2]
                both == guardG.ranBy[g1] + guardG.ranBy[g2]
            IN  /\ both <= 1
                /\ guardG.ranBy[g1] = 0
                /\ (~guardG.armed[g2] \/ guardG.called[g2]) => both = 0
                /\ (/\ guardG.g[g1].life = "dead"
                    /\ guardG.g[g2].life = "dead"
                    /\ guardG.armed[g2]
                    /\ ~guardG.called[g2]
                    /\ ~guardG.passed[g2]) => guardG.ranBy[g2] = 1

\* Two pairs, both destroyed: an active guard was moved from and the
\* callback ran once, in the destructor of the new guard; a dismissed guard
\* was moved from and its callback did not run.
C37_Witness ==
    /\ guardG # <<>>
    /\ \E p \in MovedPairsG :
           /\ guardG.g[p[1]].m_callback = "c1"
           /\ guardG.g[p[1]].life = "dead"
           /\ guardG.g[p[2]].life = "dead"
           /\ guardG.armed[p[2]]
           /\ ~guardG.called[p[2]]
           /\ guardG.ranBy[p[2]] = 1
           /\ guardG.ranBy[p[1]] = 0
    /\ \E q \in MovedPairsG :
           /\ guardG.g[q[1]].m_callback = "c2"
           /\ guardG.g[q[1]].life = "dead"
           /\ guardG.g[q[2]].life = "dead"
           /\ guardG.called[q[1]]
           /\ ~guardG.armed[q[2]]
           /\ guardG.ranBy[q[1]] + guardG.ranBy[q[2]] = 0

\* ----------------------------------------------------------------------
\* core::DynamicArray: the growth policy m_calc_growth
\* ----------------------------------------------------------------------
\* The largest small capacity m_calc_growth is called with
MaxGrowCap == 24

\* The byte threshold of the policy of part_006, 0x1000
GrowthBytes == 4096

\* The capacity threshold of the policy of core/DynamicArray.hpp
GrowthElems == 1024

\* The capacities the policy is asked about: the small ones and those
\* around the capacity threshold
GrowCaps == (0..MaxGrowCap) \cup {GrowthElems + d : d \in 0..2}

\* The element sizes sizeof(T): a byte, a word, and the sizes around the
\* byte threshold
ElemSizes == {1, 8, GrowthBytes, GrowthBytes + 1}

\* DynamicArray::m_calc_growth of part_006, for capacity() == cap and
\* sizeof(T) == sz; the division is that of size_type, which truncates
m_calc_growth6(cap, sz) ==
    IF cap = 0 THEN 2
    ELSE IF cap * sz <= GrowthBytes THEN cap * 2
    ELSE (cap * 3) \div 2

\* DynamicArray::m_calc_growth of core/DynamicArray.hpp
core_m_calc_growth(cap) ==
    IF cap = 0 THEN 1
    ELSE IF cap <= GrowthElems THEN cap * 2
    ELSE (cap * 3) \div 2

\* The ghost record of a call of a growth policy: n is capacity(), k is
\* sizeof(T), src holds the returned value.
GrowthCallB(name, cap, sz, result) ==
    /\ statusB = "ok"
    /\ opB.name = "none"
    /\ opB' = [NoCallB(FALSE) EXCEPT !.name = name, !.n = cap, !.k = sz,
                                     !.src = <<result>>]
    /\ UNCHANGED <<objsB, heapB, statusB>>
    /\ UNCHANGED restB

CalcGrowthB ==
    \E cap \in GrowCaps : \E sz \in ElemSizes :
        GrowthCallB("m_calc_growth", cap, sz, m_calc_growth6(cap, sz))

CoreCalcGrowthB ==
    \E cap \in GrowCaps : \E sz \in ElemSizes :
        GrowthCallB("core_m_calc_growth", cap, sz, core_m_calc_growth(cap))

NextCalcGrowth ==
    \/ CalcGrowthB
    \/ CoreCalcGrowthB
    \/ ReturnB

SpecCalcGrowth == InitB /\ [][NextCalcGrowth]_vars

\* C38: m_calc_growth() of part_006 returns a value strictly greater than
\* capacity(), for every capacity and every element size.
C38_GrowthExceedsCapacity ==
    opB.name = "m_calc_growth" => opB.src[1] > opB.n

\* The policy of core/DynamicArray.hpp returns a value strictly greater
\* than capacity().
CoreGrowthExceedsCapacity ==
    opB.name = "core_m_calc_growth" => opB.src[1] > opB.n

\* m_calc_growth() of part_006 returns a value strictly greater than
\* capacity() whenever capacity() is not 1 or sizeof(T) is at most the
\* byte threshold.
GrowthExceedsCapacityAboveOne ==
    (opB.name = "m_calc_growth" /\ (opB.n # 1 \/ opB.k <= GrowthBytes)) =>
        opB.src[1] > opB.n

\* ----------------------------------------------------------------------
\* The Impl helper of frank::DynamicArray in
\* src/include/containers/DynamicArray.hpp.  Its one Impl is object "a" of
\* the variables of part B; the fields m_first, m_last and m_capacity stand
\* for first, last and capacity.  T is nothrow destructible.
\* ----------------------------------------------------------------------
\* The largest count init_self and reset are called with
MaxCapE == 3

\* std::allocator_traits<Allocator>::allocate(*this, sz) as init_self calls
\* it: what allocate(0) returns is unspecified, zeroNull says that it is
\* the null pointer
allocateE(w, sz, zeroNull) ==
    IF RunningB(w) /\ sz = 0 /\ zeroNull /\ ~w.allocFail
    THEN [w EXCEPT !.ret = Null, !.cnt.alloc = @ + 1]
    ELSE impl_allocate(w, sz)

\* Impl::init_self_null
init_self_nullE(w, o) == SetTriad(w, o, Null, Null, Null)

\* Impl::init_self: the branch for sz == 0 does not return, the allocation
\* and the three assignments follow it
init_selfE(w, o, sz, zeroNull) ==
    LET z == IF sz = 0 THEN init_self_nullE(w, o) ELSE w
        a == allocateE(z, sz, zeroNull)
    IN  IF ~RunningB(w) THEN w
        ELSE IF ~RunningB(a) THEN a
        ELSE SetTriad(a, o, a.ret, a.ret, PtrAdd(a.ret, sz))

\* Impl::destroy_self
destroy_selfE(w, o) ==
    impl_destroy_range(w, w.objs[o].m_first, w.objs[o].m_last)

\* Impl::deallocate_self: deallocate(*this, first, last - first)
deallocate_selfE(w, o) ==
    impl_deallocate(w, w.objs[o].m_first, w.objs[o].m_last)

\* Impl::reset, noexcept for this T
resetE(w, o, sz, zeroNull) ==
    LET d == deallocate_selfE(destroy_selfE(w, o), o)
        i == init_selfE(d, o, sz, zeroNull)
    IN  Noexcept(ScopeGuard(i, init_self_nullE(i, o)))

\* Impl::~Impl
ImplDtorE(w, o) ==
    LET d == IF w.objs[o].m_first = Null THEN w
             ELSE deallocate_selfE(destroy_selfE(w, o), o)
    IN  IF d.status # "ok" THEN d ELSE [d EXCEPT !.objs[o] = NoObj]

\* Impl::set, called by the owner with last moved one past an element it
\* has constructed at last
append_setE(w, o, v) ==
    LET ob == w.objs[o]
        c  == impl_construct_item(w, ob.m_last, v)
    IN  IF ~RunningB(c) THEN c
        ELSE SetTriad(c, o, ob.m_first, PtrAdd(ob.m_last, 1), ob.m_capacity)

ImplCtorE ==
    /\ ~objsB["a"].alive
    /\ CallB([WorldB(FALSE, 0) EXCEPT !.objs["a"] = DefaultObj],
             "impl_ctor", "a", 0, 0)

InitSelfE ==
    \E sz \in 0..MaxCapE : \E allocFail \in BOOLEAN : \E zeroNull \in BOOLEAN :
        /\ objsB["a"].alive
        /\ objsB["a"].m_first = Null
        /\ CallB(init_selfE(WorldB(allocFail, 0), "a", sz, zeroNull),
                 "init_self", "a", sz, 0)

AppendE ==
    \E v \in ValB :
        /\ objsB["a"].alive
        /\ objsB["a"].m_first # Null
        /\ objsB["a"].m_last # objsB["a"].m_capacity
        /\ CallB(append_setE(WorldB(FALSE, 0), "a", v), "set", "a", 0, 0)

ResetE ==
    \E sz \in 0..MaxCapE : \E allocFail \in BOOLEAN : \E zeroNull \in BOOLEAN :
        /\ objsB["a"].alive
        /\ CallB(resetE(WorldB(allocFail, 0), "a", sz, zeroNull),
                 "reset", "a", sz, 0)

ImplDtorCallE ==
    /\ objsB["a"].alive
    /\ CallB(ImplDtorE(WorldB(FALSE, 0), "a"), "impl_dtor", "a", 0, 0)

NextE ==
    \/ ImplCtorE
    \/ InitSelfE
    \/ AppendE
    \/ ResetE
    \/ ImplDtorCallE
    \/ ReturnB

SpecE == InitB /\ [][NextE]_vars

\* C39: init_self(0) leaves first == last == capacity == null and does not
\* call allocate, init_self(n) for n > 0 sets last == first and capacity ==
\* first + n, and deallocate_self() (as ~Impl and reset call it) passes to
\* deallocate the count capacity - first the block was allocated with.
C39_InitAndDeallocateAgree ==
    /\ (opB.name = "init_self" /\ opB.n = 0) =>
        /\ objsB["a"].m_first = Null
        /\ objsB["a"].m_last = Null
        /\ objsB["a"].m_capacity = Null
        /\ opB.cnt.alloc = 0
    /\ (opB.name = "init_self" /\ opB.n > 0 /\ opB.exc = "none") =>
        /\ objsB["a"].m_first # Null
        /\ objsB["a"].m_last = objsB["a"].m_first
        /\ objsB["a"].m_capacity = PtrAdd(objsB["a"].m_first, opB.n)
    /\ opB.name \in {"impl_dtor", "reset"} => statusB # "bad_dealloc_size"

\* init_self(n) for n > 0 that returns leaves last == first and capacity ==
\* first + n in a block of n slots it has allocated.
InitSelfAllocatesE ==
    (opB.name = "init_self" /\ opB.n > 0 /\ opB.exc = "none") =>
        /\ objsB["a"].m_first # Null
        /\ objsB["a"].m_last = objsB["a"].m_first
        /\ objsB["a"].m_capacity = PtrAdd(objsB["a"].m_first, opB.n)
        /\ Len(CellsOf(heapB, objsB["a"].m_first)) = opB.n
        /\ opB.cnt.alloc = 1

\* init_self(0) calls allocate, whatever the allocator then does.
InitSelfZeroAllocatesE ==
    (opB.name = "init_self" /\ opB.n = 0 /\ ~opB.af) => opB.cnt.alloc = 1

\* deallocate_self() passes the count last - first: the deallocation of
\* ~Impl and reset is the one of the block exactly when the Impl is full.
DeallocateSelfPassesSizeE ==
    (/\ opB.name \in {"impl_dtor", "reset"}
     /\ PreObjB("a").m_first # Null) =>
        (statusB = "bad_dealloc_size"
            <=> sizeB(PreObjB("a")) # capacityB(PreObjB("a")))

====
